---- MODULE Spec2Model ----
(***************************************************************************)
(* Bit Flippers: the turn-based combat encounter (states/combat.py) with   *)
(* the data it reads (combat.py, skills.py, items.py, player_stats.py) and *)
(* the state stack that drives it (main.py, states/transition.py).         *)
(*                                                                         *)
(* Time is counted in units of 0.2 s: the 0.6 s phase timer is 3 units,    *)
(* the 0.4 s one is 2 units, and a frame's dt is one unit.                 *)
(* Fractions (scaling_factor) are kept in hundredths.                      *)
(* The menu cursors (menu_index, item_index, skill_index) are not state:   *)
(* UP/DOWN can bring a cursor to any entry, so a RETURN key press is       *)
(* modelled with any entry of the list under the cursor.                   *)
(* random.random() and random.randint(-1, 1) are inputs of the actions.    *)
(***************************************************************************)
EXTENDS Integers, Sequences, FiniteSets, TLC

VARIABLES
    combat,        \* the CombatState object (states/combat.py)
    stats,         \* the persistent PlayerStats object (overworld.stats)
    inventory,     \* Inventory.items restricted to the consumables
    player_skills, \* PlayerSkills.unlocked
    overworld,     \* the OverworldState fields a combat's end writes (states/overworld.py)
    state_stack,   \* Game.state_stack, bottom first
    fade,          \* the FadeTransition pushed by _finish_combat
    enemy_turns,   \* history: enemy actions run since the last menu action (-1: none chosen yet)
    finished,      \* history: number of _finish_combat calls
    rounds,        \* history: number of turns the player has spent
    last_op,       \* history: the last operation that acted
    start          \* history: the stats and the player combatant at construction

vars == <<combat, stats, inventory, player_skills, overworld, state_stack, fade, enemy_turns, finished,
          rounds, last_op, start>>

-----------------------------------------------------------------------------
(* Bounds of the model *)

\* the player's turns in one encounter
MaxRounds == 3
\* the status operations of one run of StatusSpec
MaxOps == 5
\* cap of the history counters
MaxCount == 2
\* the reward grants followed on their own: XP per level factor up to MaxBaseXp,
\* XP rewards up to MaxReward
MaxBaseXp == 3
MaxReward == 30
MaxDex == 10
MaxStat == 3
MaxSkillStat == 8
MaxTurns == 4
MaxTicks == 4
MaxDotHp == 7
MaxRoundHp == 4
MaxInt == 15
MaxDrainHp == 10
MaxGap == 9
MaxMutualHp == 3
MaxCarried == 5
MaxLevel == 4
MaxCon == 20

-----------------------------------------------------------------------------
(* Program constants *)

PhaseTimerAction == 3
PhaseTimerDefend == 2
DebuffTurns == 3
BurnAtkPenalty == 2
DespondentDexPenalty == 4
PoisonTickDamage == 2
BurnTickDamage == 1
BaseAttack == 3
FadeFull == 2

Max(a, b) == IF a >= b THEN a ELSE b
Min(a, b) == IF a <= b THEN a ELSE b

\* Python's int(): truncation toward zero of n / d, d > 0
TruncDiv(n, d) == IF n >= 0 THEN n \div d ELSE -((-n) \div d)

NoAbility == "None"

Phases == {"CHOOSING", "PLAYER_ATTACK", "ENEMY_ATTACK", "VICTORY", "DEFEAT",
           "FLED", "ITEM_SELECT", "SKILL_SELECT"}
TerminalPhases == {"VICTORY", "DEFEAT", "FLED"}
StatusNames == {"Poison", "Stun", "Burn", "Despondent"}

\* ENEMY_TYPES (the entries the model draws encounters from)
ENEMY_TYPES ==
    [ScrapRat |-> [name |-> "Scrap Rat", hp |-> 12, attack |-> 4, defense |-> 1,
                   dexterity |-> 4, xp_reward |-> 8, money_reward |-> 5, ability |-> NoAbility],
     WireSpider |-> [name |-> "Wire Spider", hp |-> 10, attack |-> 6, defense |-> 0,
                   dexterity |-> 8, xp_reward |-> 10, money_reward |-> 6, ability |-> "Poison"],
     VoltWraith |-> [name |-> "Volt Wraith", hp |-> 20, attack |-> 10, defense |-> 2,
                   dexterity |-> 7, xp_reward |-> 22, money_reward |-> 15, ability |-> "Stun"],
     RelayCrawler |-> [name |-> "Relay Crawler", hp |-> 14, attack |-> 7, defense |-> 4,
                   dexterity |-> 8, xp_reward |-> 16, money_reward |-> 10, ability |-> "Burn"]]

\* SKILL_DEFS; scaling_factor in hundredths
SKILL_DEFS ==
    [shrapnel_blast |-> [skill_id |-> "shrapnel_blast", sp_cost |-> 2, effect_type |-> "damage",
                         base_value |-> 6, stat_scaling |-> "intelligence", scaling_factor |-> 5],
     jury_rig_shield |-> [skill_id |-> "jury_rig_shield", sp_cost |-> 3, effect_type |-> "buff_defense",
                         base_value |-> 4, stat_scaling |-> "intelligence", scaling_factor |-> 5],
     voltage_surge |-> [skill_id |-> "voltage_surge", sp_cost |-> 4, effect_type |-> "damage",
                         base_value |-> 10, stat_scaling |-> "strength", scaling_factor |-> 8],
     scrap_leech |-> [skill_id |-> "scrap_leech", sp_cost |-> 3, effect_type |-> "drain",
                         base_value |-> 5, stat_scaling |-> "intelligence", scaling_factor |-> 5],
     overclock |-> [skill_id |-> "overclock", sp_cost |-> 3, effect_type |-> "debuff_attack",
                         base_value |-> 3, stat_scaling |-> "intelligence", scaling_factor |-> 5],
     magnet_storm |-> [skill_id |-> "magnet_storm", sp_cost |-> 5, effect_type |-> "damage",
                         base_value |-> 16, stat_scaling |-> "intelligence", scaling_factor |-> 5],
     patchwork_heal |-> [skill_id |-> "patchwork_heal", sp_cost |-> 4, effect_type |-> "heal",
                         base_value |-> 12, stat_scaling |-> "intelligence", scaling_factor |-> 5],
     emp_pulse |-> [skill_id |-> "emp_pulse", sp_cost |-> 5, effect_type |-> "debuff_attack",
                         base_value |-> 2, stat_scaling |-> "intelligence", scaling_factor |-> 5],
     system_purge |-> [skill_id |-> "system_purge", sp_cost |-> 3, effect_type |-> "cure_status",
                         base_value |-> 0, stat_scaling |-> "none", scaling_factor |-> 0]]

SkillIds == DOMAIN SKILL_DEFS

\* ITEM_REGISTRY, the consumables
ITEM_REGISTRY ==
    [RepairKit |-> [name |-> "Repair Kit", effect_type |-> "heal", effect_value |-> 10],
     VoltageSpike |-> [name |-> "Voltage Spike", effect_type |-> "damage", effect_value |-> 8],
     AntidoteKit |-> [name |-> "Antidote Kit", effect_type |-> "cure_status", effect_value |-> 0],
     IronPlating |-> [name |-> "Iron Plating", effect_type |-> "buff_defense", effect_value |-> 3]]

Consumables == DOMAIN ITEM_REGISTRY

-----------------------------------------------------------------------------
(* player_stats.py, skills.py: formulas *)

effective_attack(s) == BaseAttack + s.strength

effective_defense(s) == s.resilience

\* a duration with no floor of one turn
calc_debuff_duration_NoFloor(base_turns, constitution) ==
    base_turns - Max(0, (constitution - 3) \div 3)

calc_debuff_duration(base_turns, constitution) ==
    LET reduction == Max(0, (constitution - 3) \div 3)
    IN  Max(1, base_turns - reduction)

calc_skill_effect(skill, s) ==
    LET stat_value == IF skill.stat_scaling = "intelligence" THEN s.intelligence
                      ELSE IF skill.stat_scaling = "strength" THEN s.strength
                      ELSE 3
    IN  Max(1, TruncDiv(skill.base_value * (100 + (stat_value - 3) * skill.scaling_factor), 100))

\* Inventory.get_consumables
get_consumables(inv) == {n \in Consumables : inv[n] > 0}

\* Inventory.remove
inventory_remove(inv, item_name) ==
    IF inv[item_name] > 0 THEN [inv EXCEPT ![item_name] = @ - 1] ELSE inv

-----------------------------------------------------------------------------
(* states/combat.py: status effects.  A world w is the triple of objects a  *)
(* CombatState method reads and writes: w.c the CombatState, w.stats the    *)
(* PlayerStats it shares with the overworld, w.inv the inventory.           *)

StatusEffect(name, turns) == [name |-> name, turns_remaining |-> turns]

\* CombatState._has_status
HasStatus(statuses, name) == \E i \in DOMAIN statuses : statuses[i].name = name

\* [s for s in statuses if s.name != name]
WithoutStatus(statuses, name) == SelectSeq(statuses, LAMBDA s : s.name # name)

\* the durations table of _apply_status
StatusDuration(effect_name) == IF effect_name = "Stun" THEN 1 ELSE 3

\* for s in statuses: if s.name == effect_name: s.turns_remaining = duration
RefreshStatus(statuses, effect_name, duration) ==
    LET hits == {i \in DOMAIN statuses : statuses[i].name = effect_name}
        first == CHOOSE i \in hits : \A j \in hits : i <= j
    IN  [statuses EXCEPT ![first].turns_remaining = duration]

\* an _apply_status without the refresh branch: it appends every time
ApplyStatus_AlwaysAppends(w, target, effect_name) ==
    LET base == StatusDuration(effect_name)
        duration == IF target = "player"
                    THEN calc_debuff_duration(base, w.stats.constitution)
                    ELSE base
    IN  IF target = "player"
        THEN [w EXCEPT !.c.player_statuses = Append(@, StatusEffect(effect_name, duration))]
        ELSE [w EXCEPT !.c.enemy_statuses = Append(@, StatusEffect(effect_name, duration))]

\* a Burn that takes its attack penalty again every time it is refreshed
ApplyStatus_BurnStacks(w, target, effect_name) ==
    LET base == StatusDuration(effect_name)
        duration == IF target = "player"
                    THEN calc_debuff_duration(base, w.stats.constitution)
                    ELSE base
        statuses == IF target = "player" THEN w.c.player_statuses ELSE w.c.enemy_statuses
        w1 == IF HasStatus(statuses, effect_name)
              THEN IF target = "player"
                   THEN [w EXCEPT !.c.player_statuses = RefreshStatus(@, effect_name, duration)]
                   ELSE [w EXCEPT !.c.enemy_statuses = RefreshStatus(@, effect_name, duration)]
              ELSE IF target = "player"
                   THEN [w EXCEPT !.c.player_statuses = Append(@, StatusEffect(effect_name, duration))]
                   ELSE [w EXCEPT !.c.enemy_statuses = Append(@, StatusEffect(effect_name, duration))]
    IN  IF effect_name = "Burn"
        THEN IF target = "player"
             THEN [w1 EXCEPT !.c.burn_atk_reduction = BurnAtkPenalty,
                             !.c.player.attack = Max(0, @ - BurnAtkPenalty)]
             ELSE [w1 EXCEPT !.c.enemy.attack = Max(0, @ - BurnAtkPenalty)]
        ELSE w1

\* CombatState._apply_status
ApplyStatus(w, target, effect_name) ==
    LET base == StatusDuration(effect_name)
        duration == IF target = "player"
                    THEN calc_debuff_duration(base, w.stats.constitution)
                    ELSE base
        statuses == IF target = "player" THEN w.c.player_statuses ELSE w.c.enemy_statuses
    IN  IF HasStatus(statuses, effect_name)
        THEN IF target = "player"
             THEN [w EXCEPT !.c.player_statuses = RefreshStatus(@, effect_name, duration)]
             ELSE [w EXCEPT !.c.enemy_statuses = RefreshStatus(@, effect_name, duration)]
        ELSE LET w1 == IF target = "player"
                       THEN [w EXCEPT !.c.player_statuses = Append(@, StatusEffect(effect_name, duration))]
                       ELSE [w EXCEPT !.c.enemy_statuses = Append(@, StatusEffect(effect_name, duration))]
             IN  IF effect_name = "Burn"
                 THEN IF target = "player"
                      THEN [w1 EXCEPT !.c.burn_atk_reduction = BurnAtkPenalty,
                                      !.c.player.attack = Max(0, @ - BurnAtkPenalty)]
                      ELSE [w1 EXCEPT !.c.enemy.attack = Max(0, @ - BurnAtkPenalty)]
                 ELSE w1

\* the damage-over-time loop of _tick_statuses: hp after the statuses from index i on
RECURSIVE TickDamage(_, _, _)
TickDamage(statuses, i, hp) ==
    IF i > Len(statuses) THEN hp
    ELSE LET n == statuses[i].name
             hp1 == IF n = "Poison" THEN Max(0, hp - PoisonTickDamage)
                    ELSE IF n = "Burn" THEN Max(0, hp - BurnTickDamage)
                    ELSE hp
         IN  TickDamage(statuses, i + 1, hp1)

\* s.turns_remaining -= 1 for every status
TickDown(statuses) ==
    [i \in DOMAIN statuses |-> [statuses[i] EXCEPT !.turns_remaining = @ - 1]]

\* an expiry test that lets a status live one tick longer
ExpiredNames_Late(statuses) ==
    {statuses[i].name : i \in {j \in DOMAIN statuses : statuses[j].turns_remaining < 0}}

\* the names collected in expired_player / expired_enemy
ExpiredNames(statuses) ==
    {statuses[i].name : i \in {j \in DOMAIN statuses : statuses[j].turns_remaining <= 0}}

\* the statuses left once every expired name is filtered out
DropExpired(statuses) == SelectSeq(statuses, LAMBDA s : s.name \notin ExpiredNames(statuses))

\* the "dealt damage" messages of one side, in the order of its status list
DamageMessages(statuses, target) ==
    LET hurting == SelectSeq(statuses, LAMBDA s : s.name \in {"Poison", "Burn"})
    IN  [i \in DOMAIN hurting |-> [kind |-> "damage", target |-> target, name |-> hurting[i].name]]

\* the "wore off" messages of one side: one for every entry of its expired list
WoreOffMessages(statuses, target) ==
    LET expired == SelectSeq(TickDown(statuses), LAMBDA s : s.turns_remaining <= 0)
    IN  [i \in DOMAIN expired |-> [kind |-> "wore_off", target |-> target, name |-> expired[i].name]]

\* the messages _tick_statuses returns
TickMessages(w) ==
    DamageMessages(w.c.player_statuses, "player") \o WoreOffMessages(w.c.player_statuses, "player")
    \o DamageMessages(w.c.enemy_statuses, "enemy") \o WoreOffMessages(w.c.enemy_statuses, "enemy")

\* a tick that gives an expired Burn's 2 attack back to the enemy without looking at the base
TickStatuses_NoCap(w) ==
    LET pt == TickDown(w.c.player_statuses)
        et == TickDown(w.c.enemy_statuses)
        pburn == "Burn" \in ExpiredNames(pt)
        eburn == "Burn" \in ExpiredNames(et)
    IN  [w EXCEPT
            !.c.player.hp = TickDamage(w.c.player_statuses, 1, @),
            !.c.player_statuses = DropExpired(pt),
            !.c.player.attack = IF pburn THEN @ + w.c.burn_atk_reduction ELSE @,
            !.c.burn_atk_reduction = IF pburn THEN 0 ELSE @,
            !.c.enemy.hp = TickDamage(w.c.enemy_statuses, 1, @),
            !.c.enemy_statuses = DropExpired(et),
            !.c.enemy.attack = IF eburn THEN @ + BurnAtkPenalty ELSE @]

\* CombatState._tick_statuses
TickStatuses(w) ==
    LET pt == TickDown(w.c.player_statuses)
        et == TickDown(w.c.enemy_statuses)
        pburn == "Burn" \in ExpiredNames(pt)
        eburn == "Burn" \in ExpiredNames(et)
    IN  [w EXCEPT
            !.c.player.hp = TickDamage(w.c.player_statuses, 1, @),
            !.c.player_statuses = DropExpired(pt),
            !.c.player.attack = IF pburn THEN @ + w.c.burn_atk_reduction ELSE @,
            !.c.burn_atk_reduction = IF pburn THEN 0 ELSE @,
            !.c.enemy.hp = TickDamage(w.c.enemy_statuses, 1, @),
            !.c.enemy_statuses = DropExpired(et),
            !.c.enemy.attack = IF eburn THEN Min(w.c.enemy_base_attack, @ + BurnAtkPenalty) ELSE @]

\* CombatState._clear_enemy_debuffs
ClearEnemyDebuffs(w) ==
    [w EXCEPT !.c.enemy.attack = w.c.enemy_base_attack,
              !.c.enemy.defense = w.c.enemy_base_defense,
              !.c.enemy_atk_debuff = 0,
              !.c.enemy_def_debuff = 0,
              !.c.debuff_turns_remaining = 0]

\* a cure that gives the Burn penalty back without forgetting it
CurePlayer_KeepsReduction(w) ==
    [w EXCEPT !.c.player.attack = IF w.c.burn_atk_reduction > 0 THEN @ + w.c.burn_atk_reduction ELSE @,
              !.c.player_statuses = <<>>]

\* the cure_status branch of _use_combat_skill and of _use_combat_item
CurePlayer(w) ==
    [w EXCEPT !.c.player.attack = IF w.c.burn_atk_reduction > 0 THEN @ + w.c.burn_atk_reduction ELSE @,
              !.c.burn_atk_reduction = 0,
              !.c.player_statuses = <<>>]

\* StatusEffectManager.cure_player(player_entity); the manager's player_statuses and
\* burn_atk_reduction are the fields of the same names, player_entity is the player
\* StatusEffectManager.apply_status called without the entities (their default, None)
apply_status_NoEntities(w, target, effect_name, constitution) ==
    LET base == IF effect_name = "Stun" THEN 1 ELSE 3
        duration == IF target = "player" THEN calc_debuff_duration(base, constitution) ELSE base
        statuses == IF target = "player" THEN w.c.player_statuses ELSE w.c.enemy_statuses
        present == {i \in DOMAIN statuses : statuses[i].name = effect_name}
        first == CHOOSE i \in present : \A j \in present : i <= j
        updated == IF present # {}
                   THEN [statuses EXCEPT ![first].turns_remaining = duration]
                   ELSE Append(statuses, StatusEffect(effect_name, duration))
    IN  IF target = "player" THEN [w EXCEPT !.c.player_statuses = updated]
        ELSE [w EXCEPT !.c.enemy_statuses = updated]

\* StatusEffectManager.apply_status(target, effect_name, constitution, player_entity,
\* enemy_entity); the manager's lists and burn_atk_reduction are those of w.c, the
\* entities are w.c.player and w.c.enemy
apply_status(w, target, effect_name, constitution) ==
    LET base == IF effect_name = "Stun" THEN 1 ELSE 3
        duration == IF target = "player" THEN calc_debuff_duration(base, constitution) ELSE base
        statuses == IF target = "player" THEN w.c.player_statuses ELSE w.c.enemy_statuses
        present == {i \in DOMAIN statuses : statuses[i].name = effect_name}
        first == CHOOSE i \in present : \A j \in present : i <= j
        updated == IF present # {}
                   THEN [statuses EXCEPT ![first].turns_remaining = duration]
                   ELSE Append(statuses, StatusEffect(effect_name, duration))
        w1 == IF target = "player" THEN [w EXCEPT !.c.player_statuses = updated]
              ELSE [w EXCEPT !.c.enemy_statuses = updated]
    IN  IF present # {} \/ effect_name # "Burn" THEN w1
        ELSE IF target = "player"
        THEN [w1 EXCEPT !.c.burn_atk_reduction = BurnAtkPenalty,
                        !.c.player.attack = Max(0, @ - BurnAtkPenalty)]
        ELSE [w1 EXCEPT !.c.enemy.attack = Max(0, @ - BurnAtkPenalty)]

\* StatusEffectManager.tick, `for s in statuses`: damage, message, countdown and
\* the list of expired names, one status at a time; acc.statuses is the list
\* with the turns counted down so far
RECURSIVE tick_loop(_, _)
tick_loop(acc, i) ==
    IF i > Len(acc.statuses) THEN acc
    ELSE LET s == acc.statuses[i]
             hurt == IF s.name = "Poison" THEN PoisonTickDamage
                     ELSE IF s.name = "Burn" THEN BurnTickDamage ELSE 0
             turns == s.turns_remaining - 1
         IN  tick_loop([acc EXCEPT
                           !.hp = IF hurt > 0 THEN Max(0, @ - hurt) ELSE @,
                           !.messages = IF hurt > 0
                                        THEN Append(@, [kind |-> "damage", target |-> acc.target,
                                                        name |-> s.name])
                                        ELSE @,
                           !.statuses[i].turns_remaining = turns,
                           !.expired = IF turns <= 0 THEN Append(@, s.name) ELSE @],
                       i + 1)

\* StatusEffectManager.tick, `for name in expired`: the name is filtered out of
\* the list, a Burn gives the attack back, and the message is appended
RECURSIVE expire_loop(_, _)
expire_loop(acc, i) ==
    IF i > Len(acc.expired) THEN acc
    ELSE LET name == acc.expired[i]
         IN  expire_loop([acc EXCEPT
                             !.statuses = SelectSeq(@, LAMBDA s : s.name # name),
                             !.attack = IF name # "Burn" THEN @
                                        ELSE IF acc.target = "player" THEN @ + acc.burn_atk_reduction
                                        ELSE Min(acc.enemy_base_attack, @ + BurnAtkPenalty),
                             !.burn_atk_reduction = IF name = "Burn" /\ acc.target = "player"
                                                    THEN 0 ELSE @,
                             !.messages = Append(@, [kind |-> "wore_off", target |-> acc.target,
                                                     name |-> name])],
                         i + 1)

\* StatusEffectManager.tick(player_entity, enemy_entity, enemy_base_attack): the
\* player's statuses, then the enemy's; the result is the world and the messages
tick(w) ==
    LET p0 == [target |-> "player", statuses |-> w.c.player_statuses, hp |-> w.c.player.hp,
               attack |-> w.c.player.attack, burn_atk_reduction |-> w.c.burn_atk_reduction,
               enemy_base_attack |-> w.c.enemy_base_attack, expired |-> <<>>, messages |-> <<>>]
        p == expire_loop(tick_loop(p0, 1), 1)
        e0 == [target |-> "enemy", statuses |-> w.c.enemy_statuses, hp |-> w.c.enemy.hp,
               attack |-> w.c.enemy.attack, burn_atk_reduction |-> p.burn_atk_reduction,
               enemy_base_attack |-> w.c.enemy_base_attack, expired |-> <<>>,
               messages |-> p.messages]
        e == expire_loop(tick_loop(e0, 1), 1)
    IN  [w |-> [w EXCEPT !.c.player_statuses = p.statuses,
                         !.c.player.hp = p.hp,
                         !.c.player.attack = p.attack,
                         !.c.burn_atk_reduction = e.burn_atk_reduction,
                         !.c.enemy_statuses = e.statuses,
                         !.c.enemy.hp = e.hp,
                         !.c.enemy.attack = e.attack],
         messages |-> e.messages]

\* StatusEffectManager.clear_all(player_entity), on the statuses and the player of w
clear_all(w) ==
    LET burn_atk == w.c.burn_atk_reduction
    IN  [w EXCEPT !.c.player.attack = IF burn_atk > 0 THEN @ + burn_atk ELSE @,
                  !.c.burn_atk_reduction = 0,
                  !.c.player_statuses = <<>>,
                  !.c.enemy_statuses = <<>>]

cure_player(w) ==
    LET restored == IF w.c.burn_atk_reduction > 0
                    THEN [w EXCEPT !.c.player.attack = @ + w.c.burn_atk_reduction,
                                   !.c.burn_atk_reduction = 0]
                    ELSE w
    IN  [restored EXCEPT !.c.player_statuses = <<>>]

\* CombatEntity.is_alive
is_alive(e) == e.hp > 0

\* self.phase = ...; self.phase_timer = ...
SetPhase(w, phase, timer) == [w EXCEPT !.c.phase = phase, !.c.phase_timer = timer]

\* CombatState._handle_enemy_defeated
HandleEnemyDefeated(w) ==
    [w EXCEPT !.c.phase = "VICTORY",
              !.c.reward_xp = w.c.enemy_data.xp_reward,
              !.c.reward_money = w.c.enemy_data.money_reward]

-----------------------------------------------------------------------------
(* states/combat.py: the player's turn *)

\* a damage roll with no floor
Damage_NoFloor(attack, defense, r) == attack - defense + r

\* max(1, attack - defense + random.randint(-1, 1))
Damage(attack, defense, r) == Max(1, attack - defense + r)

\* _execute_player_action("Attack"); hit: the random.random() > hit_chance test failed
PlayerAttack(w, hit, r) ==
    IF ~hit
    THEN SetPhase([w EXCEPT !.c.defending = FALSE], "PLAYER_ATTACK", PhaseTimerAction)
    ELSE LET damage == Damage(w.c.player.attack, w.c.enemy.defense, r)
             w1 == [w EXCEPT !.c.enemy.hp = Max(0, @ - damage), !.c.defending = FALSE]
         IN  IF ~is_alive(w1.c.enemy)
             THEN HandleEnemyDefeated(w1)
             ELSE SetPhase(w1, "PLAYER_ATTACK", PhaseTimerAction)

\* _execute_player_action("Defend")
PlayerDefend(w) ==
    SetPhase([w EXCEPT !.c.defending = TRUE], "PLAYER_ATTACK", PhaseTimerDefend)

\* _execute_player_action("Skill"); unlocked: PlayerSkills.unlocked
PlayerOpenSkills(w, unlocked) ==
    IF unlocked = {} THEN w ELSE [w EXCEPT !.c.phase = "SKILL_SELECT"]

\* an item menu that opens like an action, with a phase timer
PlayerOpenItems_Timed(w) ==
    IF get_consumables(w.inv) = {} THEN w ELSE SetPhase(w, "ITEM_SELECT", PhaseTimerAction)

\* _execute_player_action("Item")
PlayerOpenItems(w) ==
    IF get_consumables(w.inv) = {} THEN w ELSE [w EXCEPT !.c.phase = "ITEM_SELECT"]

\* _execute_player_action("Flee"); escaped: random.random() < flee_chance
PlayerFlee(w, escaped) ==
    IF escaped
    THEN [w EXCEPT !.c.phase = "FLED"]
    ELSE SetPhase(w, "PLAYER_ATTACK", PhaseTimerAction)

\* combat_stats: the copy of the stats with the equipment's intelligence bonus
CombatStats(w) == [w.stats EXCEPT !.intelligence = @ + w.c.eq_int_bonus]

\* a debuff that is taken off the enemy's current values, on top of the last one
DebuffAttack_Stacks(w, skill, value) ==
    LET w2 == [w EXCEPT !.c.enemy_atk_debuff = value,
                        !.c.enemy.attack = Max(0, @ - value)]
        w3 == IF skill.skill_id = "emp_pulse"
              THEN [w2 EXCEPT !.c.enemy_def_debuff = value,
                              !.c.enemy.defense = Max(0, @ - value)]
              ELSE w2
    IN  [w3 EXCEPT !.c.debuff_turns_remaining = DebuffTurns]

\* the debuff_attack branch of _use_combat_skill
DebuffAttack(w, skill, value) ==
    LET w1 == ClearEnemyDebuffs(w)
        w2 == [w1 EXCEPT !.c.enemy_atk_debuff = value,
                         !.c.enemy.attack = Max(0, w1.c.enemy_base_attack - value)]
        w3 == IF skill.skill_id = "emp_pulse"
              THEN [w2 EXCEPT !.c.enemy_def_debuff = value,
                              !.c.enemy.defense = Max(0, w2.c.enemy_base_defense - value)]
              ELSE w2
    IN  [w3 EXCEPT !.c.debuff_turns_remaining = DebuffTurns]

\* the damage branch of _use_combat_skill
SkillDamage(w, value) ==
    LET w1 == [w EXCEPT !.c.enemy.hp = Max(0, @ - value)]
    IN  IF ~is_alive(w1.c.enemy)
        THEN HandleEnemyDefeated(w1)
        ELSE SetPhase(w1, "PLAYER_ATTACK", PhaseTimerAction)

\* a drain that does not look at the enemy's hp afterwards
SkillDrain_NoKillCheck(w, value) ==
    SetPhase([w EXCEPT !.c.enemy.hp = Max(0, @ - value),
                       !.c.player.hp = Min(w.c.player.max_hp, @ + value)],
             "PLAYER_ATTACK", PhaseTimerAction)

\* a drain that heals only what it took from the enemy
SkillDrain_HealsDamageDealt(w, value) ==
    LET dealt == Min(value, w.c.enemy.hp)
        w1 == [w EXCEPT !.c.enemy.hp = Max(0, @ - value),
                        !.c.player.hp = Min(w.c.player.max_hp, @ + dealt)]
    IN  IF ~is_alive(w1.c.enemy)
        THEN HandleEnemyDefeated(w1)
        ELSE SetPhase(w1, "PLAYER_ATTACK", PhaseTimerAction)

\* the drain branch of _use_combat_skill
SkillDrain(w, value) ==
    LET w1 == [w EXCEPT !.c.enemy.hp = Max(0, @ - value),
                        !.c.player.hp = Min(w.c.player.max_hp, @ + value)]
    IN  IF ~is_alive(w1.c.enemy)
        THEN HandleEnemyDefeated(w1)
        ELSE SetPhase(w1, "PLAYER_ATTACK", PhaseTimerAction)

\* a heal that does not stop at max_hp
Heal_NoClamp(w, value) == [w EXCEPT !.c.player.hp = @ + value]

\* the heal branch of _use_combat_skill and of _use_combat_item
Heal(w, value) == [w EXCEPT !.c.player.hp = Min(w.c.player.max_hp, @ + value)]

\* the buff_defense branch of _use_combat_skill and of _use_combat_item
BuffDefense(w, value) ==
    [w EXCEPT !.c.defense_buff = @ + value, !.c.player.defense = @ + value]

\* _use_combat_skill after the SP check: the cost is deducted and the effect applied
ApplySkill(w, skill_id) ==
    LET skill == SKILL_DEFS[skill_id]
        w1 == [w EXCEPT !.stats.current_sp = @ - skill.sp_cost,
                        !.c.defending = FALSE]
        value == calc_skill_effect(skill, CombatStats(w1))
        t == skill.effect_type
    IN  CASE t = "damage" -> SkillDamage(w1, value)
          [] t = "drain" -> SkillDrain(w1, value)
          [] t = "heal" -> SetPhase(Heal(w1, value), "PLAYER_ATTACK", PhaseTimerAction)
          [] t = "buff_defense" ->
               SetPhase(BuffDefense(w1, value), "PLAYER_ATTACK", PhaseTimerAction)
          [] t = "debuff_attack" ->
               SetPhase(DebuffAttack(w1, skill, value), "PLAYER_ATTACK", PhaseTimerAction)
          [] t = "cure_status" ->
               SetPhase(CurePlayer(w1), "PLAYER_ATTACK", PhaseTimerAction)

\* a skill use that never looks at the SP
UseCombatSkill_NoSpCheck(w, skill_id) == ApplySkill(w, skill_id)

\* CombatState._use_combat_skill
UseCombatSkill(w, skill_id) ==
    IF w.stats.current_sp < SKILL_DEFS[skill_id].sp_cost
    THEN w
    ELSE ApplySkill(w, skill_id)

\* the damage branch of _use_combat_item
ItemDamage(w, value) ==
    LET w1 == [w EXCEPT !.c.enemy.hp = Max(0, @ - value)]
    IN  IF ~is_alive(w1.c.enemy)
        THEN HandleEnemyDefeated(w1)
        ELSE SetPhase(w1, "PLAYER_ATTACK", PhaseTimerAction)

\* CombatState._use_combat_item
UseCombatItem(w, item_name) ==
    LET item == ITEM_REGISTRY[item_name]
        w1 == [w EXCEPT !.inv = inventory_remove(@, item_name), !.c.defending = FALSE]
        t == item.effect_type
    IN  CASE t = "damage" -> ItemDamage(w1, item.effect_value)
          [] t = "heal" ->
               SetPhase(Heal(w1, item.effect_value), "PLAYER_ATTACK", PhaseTimerAction)
          [] t = "buff_defense" ->
               SetPhase(BuffDefense(w1, item.effect_value), "PLAYER_ATTACK", PhaseTimerAction)
          [] t = "cure_status" ->
               SetPhase(CurePlayer(w1), "PLAYER_ATTACK", PhaseTimerAction)

-----------------------------------------------------------------------------
(* states/combat.py: the enemy's turn and the end of the round *)

\* the enemy-stunned branch of _do_enemy_attack
EnemyStunned(w) ==
    SetPhase([w EXCEPT !.c.enemy_statuses = WithoutStatus(@, "Stun"),
                       !.c.defending = FALSE],
             "ENEMY_ATTACK", PhaseTimerAction)

\* self.player.hp = max(0, hp - damage); defending = False; DEFEAT or ENEMY_ATTACK
EnemyHits(w, damage) ==
    LET w1 == [w EXCEPT !.c.player.hp = Max(0, @ - damage), !.c.defending = FALSE]
    IN  IF ~is_alive(w1.c.player)
        THEN [w1 EXCEPT !.c.phase = "DEFEAT"]
        ELSE SetPhase(w1, "ENEMY_ATTACK", PhaseTimerAction)

\* the special-ability branch of _do_enemy_attack
EnemyAbility(w, r) ==
    LET w1 == ApplyStatus(w, "player", w.c.enemy_data.ability)
        half == Max(1, (w1.c.enemy.attack - w1.c.player.defense + r) \div 2)
        half_damage == IF w1.c.defending THEN Max(1, half \div 2) ELSE half
    IN  EnemyHits(w1, half_damage)

\* an enemy miss that hands the turn straight back to the menu
EnemyNormalAttack_MissToChoosing(w, hit, r) ==
    IF ~hit
    THEN SetPhase([w EXCEPT !.c.defending = FALSE], "CHOOSING", 0)
    ELSE LET raw_damage == Damage(w.c.enemy.attack, w.c.player.defense, r)
             damage == IF w.c.defending THEN Max(1, raw_damage \div 2) ELSE raw_damage
         IN  EnemyHits(w, damage)

\* an enemy miss that leaves the defending flag as it was
EnemyNormalAttack_KeepsDefending(w, hit, r) ==
    IF ~hit
    THEN SetPhase(w, "ENEMY_ATTACK", PhaseTimerAction)
    ELSE LET raw_damage == Damage(w.c.enemy.attack, w.c.player.defense, r)
             damage == IF w.c.defending THEN Max(1, raw_damage \div 2) ELSE raw_damage
         IN  EnemyHits(w, damage)

\* the normal-attack branch of _do_enemy_attack
EnemyNormalAttack(w, hit, r) ==
    IF ~hit
    THEN SetPhase([w EXCEPT !.c.defending = FALSE], "ENEMY_ATTACK", PhaseTimerAction)
    ELSE LET raw_damage == Damage(w.c.enemy.attack, w.c.player.defense, r)
             damage == IF w.c.defending THEN Max(1, raw_damage \div 2) ELSE raw_damage
         IN  EnemyHits(w, damage)

\* CombatState._do_enemy_attack; use_ability: random.random() < ability["chance"]
DoEnemyAttack(w, use_ability, hit, r) ==
    IF HasStatus(w.c.enemy_statuses, "Stun") THEN EnemyStunned(w)
    ELSE IF w.c.enemy_data.ability # NoAbility /\ use_ability THEN EnemyAbility(w, r)
    ELSE EnemyNormalAttack(w, hit, r)

\* update: tick down skill debuffs
\* a countdown that runs out without restoring the enemy
TickDebuff_NoClear(w) ==
    IF w.c.debuff_turns_remaining > 0
    THEN [w EXCEPT !.c.debuff_turns_remaining = @ - 1]
    ELSE w

TickDebuff(w) ==
    IF w.c.debuff_turns_remaining > 0
    THEN LET w1 == [w EXCEPT !.c.debuff_turns_remaining = @ - 1]
         IN  IF w1.c.debuff_turns_remaining <= 0 THEN ClearEnemyDebuffs(w1) ELSE w1
    ELSE w

\* an SP regeneration that does not stop at the combat maximum
RegenSP_NoCap(w) ==
    LET intel == w.stats.intelligence + w.c.eq_int_bonus
        sp_regen == 1 + Max(0, (intel - 3) \div 3)
    IN  [w EXCEPT !.stats.current_sp = @ + sp_regen]

\* update: SP regen, base 1 + INT bonus per turn
RegenSP(w) ==
    LET intel == w.stats.intelligence + w.c.eq_int_bonus
        sp_regen == 1 + Max(0, (intel - 3) \div 3)
        combat_max_sp == w.stats.max_sp + w.c.eq_max_sp_bonus
    IN  [w EXCEPT !.stats.current_sp = Min(combat_max_sp, @ + sp_regen)]

\* update: check for player stun, skip CHOOSING
StunCheck(w) ==
    IF HasStatus(w.c.player_statuses, "Stun")
    THEN SetPhase([w EXCEPT !.c.player_statuses = WithoutStatus(@, "Stun"),
                            !.c.defending = FALSE],
                  "PLAYER_ATTACK", PhaseTimerAction)
    ELSE [w EXCEPT !.c.phase = "CHOOSING"]

\* CombatState.update, phase ENEMY_ATTACK with the timer elapsed
\* an end of round that regenerates SP before it looks for a death
EndOfRound_RegenFirst(w) ==
    LET w1 == RegenSP(TickStatuses(TickDebuff(w)))
    IN  IF ~is_alive(w1.c.enemy) THEN HandleEnemyDefeated(w1)
        ELSE IF ~is_alive(w1.c.player) THEN [w1 EXCEPT !.c.phase = "DEFEAT"]
        ELSE StunCheck(w1)

\* an end of round that checks the player's death before the enemy's
EndOfRound_PlayerFirst(w) ==
    LET w1 == TickStatuses(TickDebuff(w))
    IN  IF ~is_alive(w1.c.player) THEN [w1 EXCEPT !.c.phase = "DEFEAT"]
        ELSE IF ~is_alive(w1.c.enemy) THEN HandleEnemyDefeated(w1)
        ELSE StunCheck(RegenSP(w1))

\* an end of round that does not look at the player's hp after the tick
EndOfRound_NoDefeatCheck(w) ==
    LET w1 == TickStatuses(TickDebuff(w))
    IN  IF ~is_alive(w1.c.enemy) THEN HandleEnemyDefeated(w1)
        ELSE StunCheck(RegenSP(w1))

\* update(dt), ENEMY_ATTACK, once the timer has elapsed
EndOfRound(w) ==
    LET w1 == TickStatuses(TickDebuff(w))
    IN  IF ~is_alive(w1.c.enemy) THEN HandleEnemyDefeated(w1)
        ELSE IF ~is_alive(w1.c.player) THEN [w1 EXCEPT !.c.phase = "DEFEAT"]
        ELSE StunCheck(RegenSP(w1))

\* a death penalty that leaves current_hp where the HP sync put it
DeathPenalty_KeepsHp(s) ==
    [s EXCEPT !.money = @ - TruncDiv(s.money * 30, 100),
              !.current_sp = s.max_sp]

\* the death penalties of _finish_combat: lose 30% scrap, respawn at 60% HP
DeathPenalty(s) ==
    [s EXCEPT !.money = @ - TruncDiv(s.money * 30, 100),
              !.current_hp = Max(1, TruncDiv(s.max_hp * 60, 100)),
              !.current_sp = s.max_sp]

\* an end of encounter that leaves the defense buff on the combatant
FinishCombat_KeepsBuff(w) ==
    LET w1 == [w EXCEPT !.c.player.attack = IF w.c.burn_atk_reduction > 0
                                            THEN @ + w.c.burn_atk_reduction ELSE @,
                        !.c.burn_atk_reduction = 0,
                        !.c.player_statuses = <<>>,
                        !.c.enemy_statuses = <<>>,
                        !.stats.current_hp = Min(Max(1, w.c.player.hp - w.c.eq_max_hp_bonus),
                                                 w.stats.max_hp)]
    IN  IF w1.c.phase = "DEFEAT" THEN [w1 EXCEPT !.stats = DeathPenalty(@)] ELSE w1

\* an end of encounter that syncs the combat HP with the equipment bonus still in it
FinishCombat_KeepsBonus(w) ==
    LET w1 == [w EXCEPT !.c.player.defense = @ - w.c.defense_buff,
                        !.c.player.attack = IF w.c.burn_atk_reduction > 0
                                            THEN @ + w.c.burn_atk_reduction ELSE @,
                        !.c.burn_atk_reduction = 0,
                        !.c.player_statuses = <<>>,
                        !.c.enemy_statuses = <<>>,
                        !.stats.current_hp = Min(Max(1, w.c.player.hp), w.stats.max_hp)]
    IN  IF w1.c.phase = "DEFEAT" THEN [w1 EXCEPT !.stats = DeathPenalty(@)] ELSE w1

\* CombatState._finish_combat, up to the push of the FadeTransition
FinishCombat(w) ==
    LET w1 == [w EXCEPT !.c.player.defense = @ - w.c.defense_buff,
                        !.c.player.attack = IF w.c.burn_atk_reduction > 0
                                            THEN @ + w.c.burn_atk_reduction ELSE @,
                        !.c.burn_atk_reduction = 0,
                        !.c.player_statuses = <<>>,
                        !.c.enemy_statuses = <<>>,
                        !.stats.current_hp = Min(Max(1, w.c.player.hp - w.c.eq_max_hp_bonus),
                                                 w.stats.max_hp)]
    IN  IF w1.c.phase = "DEFEAT" THEN [w1 EXCEPT !.stats = DeathPenalty(@)] ELSE w1

-----------------------------------------------------------------------------
(* main.py, states/transition.py: the state stack and the fade *)

\* Game.active_state
active_state == state_stack[Len(state_stack)]

\* FadeTransition.__init__; kind: the phase _finish_combat captured for its callback
NewFade(kind) == [phase |-> "out", alpha |-> 0, callback_done |-> FALSE, kind |-> kind]

NoFade == [phase |-> "none", alpha |-> 0, callback_done |-> FALSE, kind |-> "none"]

\* settings.BASE_XP; settings.py is not among the sources, the value is the one
\* the specification's level-up scenario uses
BASE_XP == 100

\* player_stats.points_for_level
points_for_level(level) ==
    IF level <= 1 THEN 0 ELSE IF level % 10 = 0 THEN 4 ELSE 2

\* skills.skill_points_for_level
skill_points_for_level(level) ==
    IF level <= 1 THEN 0 ELSE 1 + (IF level % 5 = 0 THEN 1 ELSE 0)

\* OverworldState.xp_to_next_level; g is [stats, ow]: the stats and the overworld fields
xp_to_next_level(g) == g.stats.level * g.ow.base_xp

\* a level-up that costs base_xp whatever the level
LevelUp_FixedCost(g) ==
    LET level == g.stats.level + 1
    IN  [g EXCEPT !.stats.xp = @ - g.ow.base_xp,
                  !.stats.level = level,
                  !.stats.unspent_points = @ + points_for_level(level),
                  !.ow.skill_points = @ + skill_points_for_level(level),
                  !.stats.current_hp = g.stats.max_hp,
                  !.stats.current_sp = g.stats.max_sp]

\* one pass through the body of the while loop of _grant_rewards
LevelUp(g) ==
    LET level == g.stats.level + 1
    IN  [g EXCEPT !.stats.xp = @ - xp_to_next_level(g),
                  !.stats.level = level,
                  !.stats.unspent_points = @ + points_for_level(level),
                  !.ow.skill_points = @ + skill_points_for_level(level),
                  !.stats.current_hp = g.stats.max_hp,
                  !.stats.current_sp = g.stats.max_sp]

\* the while loop of _grant_rewards
RECURSIVE LevelUpLoop(_)
LevelUpLoop(g) ==
    IF g.stats.xp >= xp_to_next_level(g) THEN LevelUpLoop(LevelUp(g)) ELSE g

\* a quest level-up that leaves HP and SP where they were
ClaimLevelUp_NoHeal(g) ==
    LET g1 == [g EXCEPT !.stats.xp = @ - g.stats.level * g.ow.base_xp]
        g2 == [g1 EXCEPT !.stats.level = @ + 1]
        g3 == [g2 EXCEPT !.stats.unspent_points = @ + points_for_level(g2.stats.level)]
    IN  [g3 EXCEPT !.ow.skill_points = @ + skill_points_for_level(g3.stats.level)]

\* PlayerQuests.claim_rewards: the body of its while loop, statement by statement
ClaimLevelUp(g) ==
    LET g1 == [g EXCEPT !.stats.xp = @ - g.stats.level * g.ow.base_xp]
        g2 == [g1 EXCEPT !.stats.level = @ + 1]
        g3 == [g2 EXCEPT !.stats.unspent_points = @ + points_for_level(g2.stats.level)]
        g4 == [g3 EXCEPT !.ow.skill_points = @ + skill_points_for_level(g3.stats.level)]
        g5 == [g4 EXCEPT !.stats.current_hp = g4.stats.max_hp]
    IN  [g5 EXCEPT !.stats.current_sp = g5.stats.max_sp]

\* PlayerQuests.claim_rewards: while overworld.stats.xp >= overworld.stats.level * BASE_XP
RECURSIVE ClaimLoop(_)
ClaimLoop(g) ==
    IF g.stats.xp >= g.stats.level * g.ow.base_xp THEN ClaimLoop(ClaimLevelUp(g)) ELSE g

\* PlayerQuests.claim_rewards: the XP part, `if xp > 0`
ClaimXp(g, xp) ==
    IF xp > 0 THEN ClaimLoop([g EXCEPT !.stats.xp = @ + xp]) ELSE g

\* OverworldState._grant_rewards, up to the push of the LevelUpState
GrantRewards(g, enemy_data) ==
    LevelUpLoop([g EXCEPT !.stats.xp = @ + enemy_data.xp_reward,
                          !.stats.money = @ + enemy_data.money_reward])

\* OverworldState.on_combat_victory; no quest is active in the encounters
\* followed, so update_kill finds nothing to update
on_combat_victory(g, enemy_data) ==
    LET g1 == GrantRewards(g, enemy_data)
    IN  [g1 EXCEPT !.ow.defeated = IF g1.ow.current_scripted_enemy # "None" THEN TRUE ELSE @,
                   !.ow.current_scripted_enemy = "None"]

\* OverworldState.on_combat_end
on_combat_end(g) == [g EXCEPT !.ow.current_scripted_enemy = "None"]

\* _on_fade: game.state_stack.remove(combat_state)
RemoveCombat(stack) ==
    LET hits == {i \in DOMAIN stack : stack[i] = "combat"}
    IN  IF hits = {} THEN stack
        ELSE LET first == CHOOSE i \in hits : \A j \in hits : i <= j
             IN  SubSeq(stack, 1, first - 1) \o SubSeq(stack, first + 1, Len(stack))

\* a callback that treats every outcome as a victory
OnFade_AlwaysVictory(g, kind, enemy_data) == on_combat_victory(g, enemy_data)

\* the _on_fade callbacks of _finish_combat: what they do to the stats and the overworld
OnFade(g, kind, enemy_data) ==
    IF kind = "VICTORY" THEN on_combat_victory(g, enemy_data) ELSE on_combat_end(g)

\* the _on_fade callbacks of _finish_combat: what they do to the state stack
OnFadeStack(stack, kind, levelled) ==
    LET pushed == IF kind = "VICTORY" /\ levelled THEN Append(stack, "level_up") ELSE stack
        removed == RemoveCombat(pushed)
    IN  IF kind = "DEFEAT" THEN Append(removed, "death_screen") ELSE removed

\* Game.pop_state
pop_state(stack) == IF Len(stack) > 1 THEN SubSeq(stack, 1, Len(stack) - 1) ELSE stack

-----------------------------------------------------------------------------
(* The encounters the model starts from *)

\* PlayerStats: the dataclass defaults, with the HP, SP and scrap of a game in progress
PlayerStats(hp, sp) ==
    [max_hp |-> 30, max_sp |-> 10, strength |-> 5, dexterity |-> 5, resilience |-> 3,
     constitution |-> 3, intelligence |-> 3, money |-> 25,
     level |-> 1, xp |-> 0, unspent_points |-> 0,
     current_hp |-> hp, current_sp |-> sp]

\* Equipment.get_total_bonuses: nothing equipped, the Bronze Servo Ring, the Palladium Neural Link,
\* the Bronze Vibro-Knife worn with the Bronze Shield Vest
NoEquipment == [max_hp |-> 0, max_sp |-> 0, dexterity |-> 0, intelligence |-> 0,
                strength |-> 0, resilience |-> 0]
ServoRing == [NoEquipment EXCEPT !.max_hp = 3]
NeuralLink == [NoEquipment EXCEPT !.max_sp = 5, !.intelligence = 3]
KnifeAndVest == [NoEquipment EXCEPT !.strength = 2, !.resilience = 2]

\* Inventory.items
Items(r, v, a, i) == [RepairKit |-> r, VoltageSpike |-> v, AntidoteKit |-> a, IronPlating |-> i]

\* the encounters the model follows: enemy, player, equipment, skills, inventory
Encounters ==
    {[enemy |-> "WireSpider", stats |-> [PlayerStats(9, 10) EXCEPT !.money = 133],
      eq |-> NoEquipment, scripted |-> TRUE,
      skills |-> {"shrapnel_blast", "scrap_leech", "system_purge"}, inv |-> Items(1, 0, 1, 0)],
     [enemy |-> "VoltWraith", stats |-> PlayerStats(27, 10), eq |-> ServoRing,
      scripted |-> FALSE,
      skills |-> {"jury_rig_shield", "overclock", "emp_pulse"}, inv |-> Items(0, 1, 0, 2)],
     [enemy |-> "RelayCrawler", stats |-> [PlayerStats(12, 6) EXCEPT !.money = 9],
      eq |-> KnifeAndVest, scripted |-> TRUE,
      skills |-> {"voltage_surge", "patchwork_heal", "system_purge"}, inv |-> Items(0, 0, 1, 1)],
     [enemy |-> "ScrapRat", stats |-> [PlayerStats(30, 10) EXCEPT !.xp = 95],
      eq |-> NeuralLink, scripted |-> FALSE,
      skills |-> {}, inv |-> Items(1, 0, 0, 0)]}

\* the overworld when an encounter starts: _start_scripted_combat has set
\* _current_scripted_enemy, _start_random_combat has not
NewOverworld(scripted) ==
    [base_xp |-> BASE_XP,
     current_scripted_enemy |-> IF scripted THEN "npc" ELSE "None",
     defeated |-> FALSE,
     skill_points |-> 0]

\* a record of the history variable last_op
Op(op, name) == [op |-> op, name |-> name, target |-> "", refreshed |-> FALSE]

\* CombatState.__init__
NewCombat(enemy_data, s, eq) ==
    LET combat_max_hp == s.max_hp + eq.max_hp
        combat_hp == Min(s.current_hp + eq.max_hp, combat_max_hp)
    IN  [enemy_data |-> enemy_data, equipment |-> eq,
         enemy |-> [hp |-> enemy_data.hp, max_hp |-> enemy_data.hp,
                    attack |-> enemy_data.attack, defense |-> enemy_data.defense],
         player |-> [hp |-> combat_hp, max_hp |-> combat_max_hp,
                     attack |-> effective_attack(s), defense |-> effective_defense(s)],
         reward_xp |-> 0, reward_money |-> 0,
         eq_max_sp_bonus |-> eq.max_sp, eq_dex_bonus |-> eq.dexterity,
         eq_int_bonus |-> eq.intelligence, eq_max_hp_bonus |-> eq.max_hp,
         phase |-> "CHOOSING", defending |-> FALSE, defense_buff |-> 0,
         player_statuses |-> <<>>, enemy_statuses |-> <<>>, burn_atk_reduction |-> 0,
         enemy_atk_debuff |-> 0, enemy_def_debuff |-> 0, debuff_turns_remaining |-> 0,
         enemy_base_attack |-> enemy_data.attack, enemy_base_defense |-> enemy_data.defense,
         phase_timer |-> 0]

Init ==
    /\ \E e \in Encounters :
          /\ stats = e.stats
          /\ inventory = e.inv
          /\ player_skills = e.skills
          /\ overworld = NewOverworld(e.scripted)
          /\ combat = NewCombat(ENEMY_TYPES[e.enemy], e.stats, e.eq)
    /\ state_stack = <<"overworld", "combat">>
    /\ fade = NoFade
    /\ enemy_turns = -1
    /\ finished = 0
    /\ rounds = 0
    /\ last_op = Op("none", "")
    /\ start = [stats |-> stats, player |-> combat.player]

-----------------------------------------------------------------------------
(* The operations: key presses and frames delivered to the active state *)

World == [c |-> combat, stats |-> stats, inv |-> inventory]

Becomes(w) == combat' = w.c /\ stats' = w.stats /\ inventory' = w.inv

\* a dispatch that hands events and frames to the combat state wherever it is on the stack
CombatActive_Underneath == \E i \in DOMAIN state_stack : state_stack[i] = "combat"

\* Game.handle_events, Game.update: the state on top of the stack gets the event or frame
CombatActive == active_state = "combat"

\* dt of a frame, in 0.2 s units
FrameTimes == {1}

\* a menu action that spends the player's turn starts a new count of enemy actions;
\* a skill that leaves the phase at SKILL_SELECT was refused ("Not enough SP!")
Counted(w, op, name) ==
    LET spent == w.c.phase \in {"PLAYER_ATTACK", "VICTORY", "FLED"}
    IN  /\ enemy_turns' = IF w.c.phase = "PLAYER_ATTACK" THEN 0 ELSE enemy_turns
        /\ rounds' = IF spent THEN rounds + 1 ELSE rounds
        /\ last_op' = IF spent THEN Op(op, name)
                      ELSE IF w.c.phase = "SKILL_SELECT" THEN Op("Refused", name)
                      ELSE last_op

\* the model follows an encounter for MaxRounds turns of the player
InBounds == rounds < MaxRounds

\* handle_event, CHOOSING, RETURN on "Attack"
KeyAttack ==
    /\ CombatActive /\ combat.phase = "CHOOSING" /\ InBounds
    /\ \E hit \in BOOLEAN, r \in -1..1 :
          LET w == PlayerAttack(World, hit, r)
          IN  Becomes(w) /\ Counted(w, "Attack", "")
    /\ UNCHANGED <<player_skills, overworld, state_stack, fade, finished, start>>

\* handle_event, CHOOSING, RETURN on "Defend"
KeyDefend ==
    /\ CombatActive /\ combat.phase = "CHOOSING" /\ InBounds
    /\ LET w == PlayerDefend(World) IN Becomes(w) /\ Counted(w, "Defend", "")
    /\ UNCHANGED <<player_skills, overworld, state_stack, fade, finished, start>>

\* handle_event, CHOOSING, RETURN on "Skill"
KeySkill ==
    /\ CombatActive /\ combat.phase = "CHOOSING" /\ InBounds
    /\ Becomes(PlayerOpenSkills(World, player_skills))
    /\ UNCHANGED <<player_skills, overworld, state_stack, fade, enemy_turns, finished, rounds, last_op, start>>

\* handle_event, CHOOSING, RETURN on "Item"
KeyItem ==
    /\ CombatActive /\ combat.phase = "CHOOSING" /\ InBounds
    /\ Becomes(PlayerOpenItems(World))
    /\ UNCHANGED <<player_skills, overworld, state_stack, fade, enemy_turns, finished, rounds, last_op, start>>

\* handle_event, CHOOSING, RETURN on "Flee"
KeyFlee ==
    /\ CombatActive /\ combat.phase = "CHOOSING" /\ InBounds
    /\ \E escaped \in BOOLEAN :
          LET w == PlayerFlee(World, escaped)
          IN  Becomes(w) /\ Counted(w, "Flee", "")
    /\ UNCHANGED <<player_skills, overworld, state_stack, fade, finished, start>>

\* handle_event, ITEM_SELECT or SKILL_SELECT, ESCAPE
KeyCancel ==
    /\ CombatActive /\ combat.phase \in {"ITEM_SELECT", "SKILL_SELECT"}
    /\ combat' = [combat EXCEPT !.phase = "CHOOSING"]
    /\ last_op' = Op("Cancel", combat.phase)
    /\ UNCHANGED <<stats, inventory, player_skills, overworld, state_stack, fade, enemy_turns,
                   finished, rounds, start>>

\* handle_event, SKILL_SELECT, RETURN on a skill of skill_list
KeyUseSkill ==
    /\ CombatActive /\ combat.phase = "SKILL_SELECT" /\ InBounds
    /\ \E skill_id \in player_skills :
          LET w == UseCombatSkill(World, skill_id)
          IN  Becomes(w) /\ Counted(w, "Skill", skill_id)
    /\ UNCHANGED <<player_skills, overworld, state_stack, fade, finished, start>>

\* handle_event, ITEM_SELECT, RETURN on an item of item_list
KeyUseItem ==
    /\ CombatActive /\ combat.phase = "ITEM_SELECT" /\ InBounds
    /\ \E item_name \in get_consumables(inventory) :
          LET w == UseCombatItem(World, item_name)
          IN  Becomes(w) /\ Counted(w, "Item", item_name)
    /\ UNCHANGED <<player_skills, overworld, state_stack, fade, finished, start>>

\* handle_event: a key the phase has no branch for (UP and DOWN only move a cursor)
KeyIgnored ==
    /\ CombatActive
    /\ UNCHANGED vars

\* the enemy's ability is used on a player who already carries its status
AbilityRefreshes(w, use_ability) ==
    /\ ~HasStatus(w.c.enemy_statuses, "Stun")
    /\ w.c.enemy_data.ability # NoAbility /\ use_ability
    /\ HasStatus(w.c.player_statuses, w.c.enemy_data.ability)

\* update(dt), PLAYER_ATTACK: the timer runs, and the enemy acts when it elapses
UpdatePlayerAttack ==
    /\ CombatActive /\ combat.phase = "PLAYER_ATTACK"
    /\ \E dt \in FrameTimes :
          LET w == [World EXCEPT !.c.phase_timer = @ - dt]
          IN  IF w.c.phase_timer <= 0
              THEN /\ \E use_ability \in BOOLEAN, hit \in BOOLEAN, r \in -1..1 :
                         /\ Becomes(DoEnemyAttack(w, use_ability, hit, r))
                         /\ last_op' = IF AbilityRefreshes(w, use_ability)
                                       THEN Op("Refreshed", w.c.enemy_data.ability)
                                       ELSE last_op
                   /\ enemy_turns' = Min(MaxCount, enemy_turns + 1)
              ELSE Becomes(w) /\ enemy_turns' = enemy_turns /\ last_op' = last_op
    /\ UNCHANGED <<player_skills, overworld, state_stack, fade, finished, rounds, start>>

\* update(dt), ENEMY_ATTACK: the timer runs, and the round ends when it elapses
UpdateEnemyAttack ==
    /\ CombatActive /\ combat.phase = "ENEMY_ATTACK"
    /\ \E dt \in FrameTimes :
          LET w == [World EXCEPT !.c.phase_timer = @ - dt]
              w1 == IF w.c.phase_timer <= 0 THEN EndOfRound(w) ELSE w
          IN  /\ Becomes(w1)
              /\ last_op' = IF w1.c.phase = "PLAYER_ATTACK" THEN Op("Stunned", "") ELSE last_op
    /\ UNCHANGED <<player_skills, overworld, state_stack, fade, enemy_turns, finished, rounds, start>>

\* an update(dt) that keeps regenerating SP whatever the phase
UpdateIdle_Regen ==
    /\ CombatActive /\ combat.phase \notin {"PLAYER_ATTACK", "ENEMY_ATTACK"}
    /\ Becomes(RegenSP(World))
    /\ UNCHANGED <<player_skills, overworld, state_stack, fade, enemy_turns, finished, rounds, last_op, start>>

\* update(dt) in any other phase: only the cosmetic timers run
UpdateIdle ==
    /\ CombatActive /\ combat.phase \notin {"PLAYER_ATTACK", "ENEMY_ATTACK"}
    /\ UNCHANGED vars

\* handle_event, VICTORY, DEFEAT or FLED, RETURN: _finish_combat
KeyAcknowledge ==
    /\ CombatActive /\ combat.phase \in TerminalPhases
    /\ Becomes(FinishCombat(World))
    /\ state_stack' = Append(state_stack, "fade")
    /\ fade' = NewFade(combat.phase)
    /\ finished' = Min(MaxCount, finished + 1)
    /\ UNCHANGED <<player_skills, overworld, enemy_turns, rounds, last_op, start>>

\* FadeTransition.handle_event: a key pressed during the fade is swallowed
FadeKey ==
    /\ active_state = "fade"
    /\ last_op' = Op("Swallowed", fade.phase)
    /\ UNCHANGED <<combat, stats, inventory, player_skills, overworld, state_stack, fade,
                   enemy_turns, finished, rounds, start>>

\* FadeTransition.update, phase "out": at full alpha the callback runs, once
FadeOut ==
    /\ active_state = "fade" /\ fade.phase = "out"
    /\ \E dt \in FrameTimes :
          LET alpha == Min(FadeFull, fade.alpha + dt)
              g == [stats |-> stats, ow |-> overworld]
              g1 == OnFade(g, fade.kind, combat.enemy_data)
          IN  IF alpha >= FadeFull
              THEN /\ fade' = [fade EXCEPT !.alpha = alpha, !.callback_done = TRUE, !.phase = "in"]
                   /\ IF fade.callback_done
                      THEN UNCHANGED <<state_stack, stats, overworld>>
                      ELSE /\ stats' = g1.stats
                           /\ overworld' = g1.ow
                           /\ state_stack' = OnFadeStack(state_stack, fade.kind,
                                                         g1.stats.level > stats.level)
              ELSE /\ fade' = [fade EXCEPT !.alpha = alpha]
                   /\ UNCHANGED <<state_stack, stats, overworld>>
    /\ UNCHANGED <<combat, inventory, player_skills, enemy_turns, finished, rounds, last_op, start>>

\* FadeTransition.update, phase "in"
FadeIn ==
    /\ active_state = "fade" /\ fade.phase = "in"
    /\ \E dt \in FrameTimes :
          LET alpha == Max(0, fade.alpha - dt)
          IN  /\ fade' = [fade EXCEPT !.alpha = alpha]
              /\ state_stack' = IF alpha <= 0 THEN pop_state(state_stack) ELSE state_stack
    /\ UNCHANGED <<combat, stats, inventory, player_skills, overworld, enemy_turns, finished, rounds, last_op, start>>

\* LevelUpState: RETURN or the 2 s timer pops it
LevelUpDismiss ==
    /\ active_state = "level_up"
    /\ state_stack' = pop_state(state_stack)
    /\ UNCHANGED <<combat, stats, inventory, player_skills, overworld, fade, enemy_turns, finished,
                   rounds, last_op, start>>

\* DeathScreenState.handle_event, RETURN: the stats are saved to disk and the screen pops
DeathScreenDismiss ==
    /\ active_state = "death_screen"
    /\ state_stack' = pop_state(state_stack)
    /\ UNCHANGED <<combat, stats, inventory, player_skills, overworld, fade, enemy_turns, finished,
                   rounds, last_op, start>>

Next ==
    \/ KeyAttack
    \/ KeyDefend
    \/ KeySkill
    \/ KeyItem
    \/ KeyFlee
    \/ KeyCancel
    \/ KeyUseSkill
    \/ KeyUseItem
    \/ KeyIgnored
    \/ UpdatePlayerAttack
    \/ UpdateEnemyAttack
    \/ UpdateIdle
    \/ KeyAcknowledge
    \/ FadeKey
    \/ FadeOut
    \/ FadeIn
    \/ LevelUpDismiss
    \/ DeathScreenDismiss

Spec == Init /\ [][Next]_vars

-----------------------------------------------------------------------------
(* The status operations of CombatState on their own: any sequence of      *)
(* _apply_status on either combatant, _tick_statuses, the two stun checks  *)
(* and the cure, from the start of an encounter.                           *)

StatusOp(op, name, target, refreshed) ==
    [op |-> op, name |-> name, target |-> target, refreshed |-> refreshed]

StatusesOf(target) ==
    IF target = "player" THEN combat.player_statuses ELSE combat.enemy_statuses

StatusFrame ==
    /\ rounds' = rounds + 1
    /\ UNCHANGED <<player_skills, overworld, state_stack, fade, enemy_turns, finished, start>>

\* _apply_status(target, effect_name)
OpApply ==
    /\ rounds < MaxOps
    /\ \E target \in {"player", "enemy"}, effect_name \in StatusNames :
          /\ Becomes(ApplyStatus(World, target, effect_name))
          /\ last_op' = StatusOp("apply", effect_name, target,
                                 HasStatus(StatusesOf(target), effect_name))
    /\ StatusFrame

\* _tick_statuses()
OpTick ==
    /\ rounds < MaxOps
    /\ Becomes(TickStatuses(World))
    /\ last_op' = StatusOp("tick", "", "", FALSE)
    /\ StatusFrame

\* the player stun check at the end of update
OpPlayerStun ==
    /\ rounds < MaxOps
    /\ Becomes(StunCheck(World))
    /\ last_op' = StatusOp("stun", "Stun", "player", FALSE)
    /\ StatusFrame

\* the enemy stun check at the start of _do_enemy_attack
OpEnemyStun ==
    /\ rounds < MaxOps
    /\ HasStatus(combat.enemy_statuses, "Stun")
    /\ Becomes(EnemyStunned(World))
    /\ last_op' = StatusOp("stun", "Stun", "enemy", FALSE)
    /\ StatusFrame

\* what a cure records: whether the run of cures it belongs to began with a Burn,
\* and whether a cure came right before it
CureOp ==
    StatusOp("cure",
             IF last_op.op = "cure" THEN last_op.name
             ELSE IF HasStatus(combat.player_statuses, "Burn") THEN "Burn" ELSE "",
             "player", last_op.op = "cure")

\* the cure_status effect of a skill or an item
OpCure ==
    /\ rounds < MaxOps
    /\ Becomes(CurePlayer(World))
    /\ last_op' = CureOp
    /\ StatusFrame

\* StatusEffectManager.cure_player
OpCureManager ==
    /\ rounds < MaxOps
    /\ Becomes(cure_player(World))
    /\ last_op' = CureOp
    /\ StatusFrame

StatusNext ==
    \/ OpApply
    \/ OpTick
    \/ OpPlayerStun
    \/ OpEnemyStun
    \/ OpCure
    \/ OpCureManager

StatusSpec == Init /\ [][StatusNext]_vars

-----------------------------------------------------------------------------
(* Claims *)

\* C1: in every reachable state of an encounter both combatants have
\* 0 <= hp <= max_hp.
C1_HpInRange ==
    /\ 0 <= combat.player.hp /\ combat.player.hp <= combat.player.max_hp
    /\ 0 <= combat.enemy.hp /\ combat.enemy.hp <= combat.enemy.max_hp

\* C1 witness: a Repair Kit was used by a player it could not heal by its full 10 HP.
C1_Witness ==
    /\ last_op = Op("Item", "RepairKit")
    /\ combat.phase = "PLAYER_ATTACK"
    /\ combat.player.hp = combat.player.max_hp

\* the combat maximum of SP: stats.max_sp plus the equipment's max_sp bonus
CombatMaxSp == stats.max_sp + combat.eq_max_sp_bonus

\* C2: in every reachable state of an encounter the player's SP is within
\* 0 .. stats.max_sp + equipment max_sp bonus.
C2_SpInRange == 0 <= stats.current_sp /\ stats.current_sp <= CombatMaxSp

\* C2 witness: the third regeneration of 2 SP from 10 SP stopped at the maximum of 15.
C2_Witness ==
    /\ combat.phase = "CHOOSING" /\ rounds = 3
    /\ start.stats.current_sp = 10 /\ combat.eq_int_bonus = 3
    /\ stats.current_sp = CombatMaxSp

NamesOf(statuses) == {statuses[i].name : i \in DOMAIN statuses}
UniqueNames(statuses) == Cardinality(NamesOf(statuses)) = Len(statuses)

\* what a re-application may do to a list: the entry of that name gets the new
\* duration, every other entry and the length stay
Refreshed(old, new, effect_name, duration) ==
    /\ Len(new) = Len(old)
    /\ \A i \in DOMAIN old :
          new[i] = IF old[i].name = effect_name
                   THEN [name |-> effect_name, turns_remaining |-> duration]
                   ELSE old[i]

\* C3: after any sequence of apply, tick, stun-consumption and cure operations
\* each status list holds at most one entry per name, and applying a status that
\* is already present only resets its turns_remaining to the new duration.
C3_OnePerName ==
    [][/\ UniqueNames(combat.player_statuses) /\ UniqueNames(combat.enemy_statuses)
       /\ UniqueNames(combat'.player_statuses) /\ UniqueNames(combat'.enemy_statuses)
       /\ (last_op'.op = "apply" /\ last_op'.refreshed /\ last_op'.target = "player") =>
             Refreshed(combat.player_statuses, combat'.player_statuses, last_op'.name,
                       calc_debuff_duration(StatusDuration(last_op'.name), stats.constitution))
       /\ (last_op'.op = "apply" /\ last_op'.refreshed /\ last_op'.target = "enemy") =>
             Refreshed(combat.enemy_statuses, combat'.enemy_statuses, last_op'.name,
                       StatusDuration(last_op'.name))]_vars

\* C3 witness: a status was applied again, after a tick, to a player holding two statuses.
C3_Witness ==
    /\ last_op.op = "apply" /\ last_op.refreshed /\ last_op.target = "player"
    /\ Len(combat.player_statuses) = 2
    /\ \E i \in DOMAIN combat.player_statuses : combat.player_statuses[i].turns_remaining = 2

\* C4 (as claimed): a Stun inflicted on a surviving player is found by the
\* end-of-round step, which consumes it and re-enters PLAYER_ATTACK without
\* passing through CHOOSING.
C4_StunSkipsChoosing ==
    [][(/\ combat.phase = "ENEMY_ATTACK"
        /\ HasStatus(combat.player_statuses, "Stun")
        /\ combat'.phase \notin {"ENEMY_ATTACK", "VICTORY", "DEFEAT"})
       => /\ combat'.phase = "PLAYER_ATTACK"
          /\ ~HasStatus(combat'.player_statuses, "Stun")
          /\ last_op'.op = "Stunned"]_vars

MenuPhases == {"CHOOSING", "ITEM_SELECT", "SKILL_SELECT"}

\* C5: a player action that brings enemy.hp to 0 sets the phase to VICTORY in
\* that step, and from VICTORY on no enemy action, status tick or SP
\* regeneration runs (the SP is only written again by a level-up of the reward
\* grant, once the encounter has left the state stack).
C5_KillEndsEncounter ==
    [][/\ (combat.phase \in MenuPhases /\ combat.enemy.hp > 0 /\ combat'.enemy.hp = 0)
            => combat'.phase = "VICTORY"
       /\ combat.phase = "VICTORY"
            => /\ combat'.phase = "VICTORY"
               /\ enemy_turns' = enemy_turns
               /\ combat'.player.hp = combat.player.hp
               /\ combat'.enemy = combat.enemy
               /\ (\E i \in DOMAIN state_stack' : state_stack'[i] = "combat")
                     => stats'.current_sp = stats.current_sp
               /\ combat'.debuff_turns_remaining = combat.debuff_turns_remaining
               /\ finished' = finished =>
                     /\ combat'.player_statuses = combat.player_statuses
                     /\ combat'.enemy_statuses = combat.enemy_statuses]_vars

\* C5 witness: Scrap Leech killed the enemy.
C5_Witness ==
    /\ combat.phase = "VICTORY" /\ combat.enemy.hp = 0
    /\ last_op = Op("Skill", "scrap_leech")

\* C6: in VICTORY, DEFEAT and FLED nothing but the acknowledgment changes the
\* phase, a combatant, a status list or the player's SP while the encounter
\* is the active state, and the acknowledgment leaves the phase as it is.
C6_TerminalIsFinal ==
    [][combat.phase \in TerminalPhases
          => /\ combat'.phase = combat.phase
             /\ finished' = finished =>
                   /\ combat'.player = combat.player
                   /\ combat'.enemy = combat.enemy
                   /\ combat'.player_statuses = combat.player_statuses
                   /\ combat'.enemy_statuses = combat.enemy_statuses
                   /\ CombatActive => stats'.current_sp = stats.current_sp
             /\ finished' # finished => state_stack' = Append(state_stack, "fade")]_vars

\* C6 witness: the player fled, short of SP, with a skill debuff still counting down.
C6_Witness ==
    /\ combat.phase = "FLED" /\ finished = 0
    /\ combat.debuff_turns_remaining > 0
    /\ stats.current_sp < CombatMaxSp

\* the phase changes C7 lists
NextPhases(phase) ==
    CASE phase = "CHOOSING" -> {"PLAYER_ATTACK", "ITEM_SELECT", "SKILL_SELECT", "VICTORY", "FLED"}
      [] phase \in {"ITEM_SELECT", "SKILL_SELECT"} -> {"CHOOSING", "PLAYER_ATTACK", "VICTORY"}
      [] phase = "PLAYER_ATTACK" -> {"ENEMY_ATTACK", "DEFEAT"}
      [] phase = "ENEMY_ATTACK" -> {"CHOOSING", "PLAYER_ATTACK", "VICTORY", "DEFEAT"}
      [] OTHER -> {}

C8_DefenseBuffReversed ==
    /\ finished = 0 => combat.player.defense - combat.defense_buff = start.player.defense
    /\ finished >= 1 => combat.player.defense = start.player.defense
    /\ finished <= 1
    /\ start.player.defense = effective_defense(start.stats)
    /\ stats.resilience = start.stats.resilience

\* C8 witness: an encounter with Jury-Rig Shield (+4) and Iron Plating (+3) was ended.
C8_Witness ==
    /\ finished = 1 /\ combat.defense_buff = 7

\* C9: defending is true only between a Defend and the enemy action that follows
\* it: it is false whenever the enemy has acted or the menu is open, and false
\* after any other action of the player, a failed Flee and a stunned turn included.
C9_DefendingOneAction ==
    /\ combat.phase \in MenuPhases \cup {"ENEMY_ATTACK"} => ~combat.defending
    /\ combat.defending => last_op.op = "Defend" /\ combat.phase = "PLAYER_ATTACK"

\* C9 witness: a Flee failed on the player's second turn.
C9_Witness ==
    /\ last_op.op = "Flee" /\ combat.phase = "PLAYER_ATTACK" /\ rounds = 2
    /\ ~combat.defending

\* C10: right after a debuff_attack cast the enemy's attack is base - v for the
\* v of that cast alone, its defense is base - v for emp_pulse and base
\* otherwise, and the countdown is 3.
C10_DebuffReplaces ==
    [][(last_op'.op = "Skill" /\ rounds' # rounds
          /\ SKILL_DEFS[last_op'.name].effect_type = "debuff_attack")
       => LET skill == SKILL_DEFS[last_op'.name]
              v == calc_skill_effect(skill,
                       [stats EXCEPT !.intelligence = @ + combat.eq_int_bonus])
              emp == skill.skill_id = "emp_pulse"
          IN  /\ combat'.enemy.attack = Max(0, combat.enemy_base_attack - v)
              /\ combat'.enemy.defense =
                    IF emp THEN Max(0, combat.enemy_base_defense - v)
                    ELSE combat.enemy_base_defense
              /\ combat'.enemy_atk_debuff = v
              /\ combat'.enemy_def_debuff = IF emp THEN v ELSE 0
              /\ combat'.debuff_turns_remaining = 3]_vars

\* C10 witness: Overclock was cast on the third turn, after EMP Pulse and
\* Overclock on the first two (10 SP, costs 3 and 5, 1 SP regained per round).
C10_Witness ==
    /\ last_op = Op("Skill", "overclock") /\ rounds = 3
    /\ start.stats.current_sp = 10 /\ stats.current_sp = 1
    /\ combat.defense_buff = 0
    /\ combat.enemy.attack = combat.enemy_base_attack - 3
    /\ combat.enemy.defense = combat.enemy_base_defense

\* C11 (as claimed): from the start of an encounter until its acknowledgment
\* no field of the persistent PlayerStats object is written.
C11_StatsUntouchedInCombat ==
    [][(finished = 0 /\ finished' = 0) => stats' = stats]_vars

\* C12: xp, level and the defeated flag change, and money grows, only in the
\* callback of an encounter acknowledged in VICTORY, which adds the enemy's
\* money reward and marks a scripted enemy defeated; FLED leaves xp, money,
\* level and the flag as they are, DEFEAT grants no xp and leaves the flag.
C12_RewardsOnlyOnVictory ==
    [][/\ (\/ stats'.xp # stats.xp \/ stats'.level # stats.level
           \/ stats'.money > stats.money
           \/ overworld'.defeated # overworld.defeated
           \/ overworld'.skill_points # overworld.skill_points)
          => /\ combat.phase = "VICTORY" /\ finished = 1 /\ active_state = "fade"
             /\ stats'.money = stats.money + combat.enemy_data.money_reward
             /\ stats'.xp + (stats'.level - stats.level) * stats.level * overworld.base_xp
                   = stats.xp + combat.enemy_data.xp_reward
       /\ (combat.phase = "VICTORY" /\ ~fade.callback_done /\ fade'.callback_done)
          => /\ stats'.money = stats.money + combat.enemy_data.money_reward
             /\ overworld'.defeated = (overworld.current_scripted_enemy # "None")
       /\ combat.phase = "FLED"
          => /\ stats'.xp = stats.xp /\ stats'.money = stats.money
             /\ stats'.level = stats.level
             /\ overworld'.defeated = overworld.defeated
       /\ combat.phase = "DEFEAT"
          => /\ stats'.xp = stats.xp /\ stats'.level = stats.level
             /\ overworld'.defeated = overworld.defeated]_vars

\* C12 witness: a scripted Wire Spider was beaten and the rewards are in.
C12_Witness ==
    /\ combat.phase = "VICTORY" /\ overworld.defeated
    /\ stats.xp = start.stats.xp + combat.enemy_data.xp_reward
    /\ stats.money = start.stats.money + combat.enemy_data.money_reward

-----------------------------------------------------------------------------
(* _grant_rewards on its own, one pass of its loop at a time, for any       *)
(* BASE_XP in 1..MaxBaseXp, from levels below the 5th and the 10th.         *)

StartLevels == {1, 4, 9}

RewardInit ==
    /\ \E level \in StartLevels, base_xp \in 1..MaxBaseXp, full \in BOOLEAN, sp \in {0, 2} :
          /\ stats = [PlayerStats(12, 4) EXCEPT !.level = level,
                                                !.xp = IF full THEN level * base_xp - 1 ELSE 0]
          /\ overworld = [NewOverworld(FALSE) EXCEPT !.base_xp = base_xp, !.skill_points = sp]
    /\ inventory = Items(0, 0, 0, 0)
    /\ player_skills = {}
    /\ combat = NewCombat(ENEMY_TYPES.ScrapRat, stats, NoEquipment)
    /\ state_stack = <<"overworld">>
    /\ fade = NoFade
    /\ enemy_turns = -1
    /\ finished = 0
    /\ rounds = 0
    /\ last_op = [op |-> "none", xp_reward |-> 0, money_reward |-> 0]
    /\ start = [stats |-> stats, player |-> combat.player, skill_points |-> overworld.skill_points]

RewardFrame ==
    UNCHANGED <<combat, inventory, player_skills, state_stack, fade, enemy_turns, finished, start>>

\* _grant_rewards: the XP and the money are added
GrantStart ==
    /\ last_op.op = "none"
    /\ \E xp_reward \in 0..MaxReward, money_reward \in {0, 5} :
          /\ stats' = [stats EXCEPT !.xp = @ + xp_reward, !.money = @ + money_reward]
          /\ last_op' = [op |-> "loop", xp_reward |-> xp_reward, money_reward |-> money_reward]
    /\ UNCHANGED <<overworld, rounds>>
    /\ RewardFrame

\* _grant_rewards: the loop condition holds, the body runs once
GrantLoop ==
    /\ last_op.op = "loop"
    /\ LET g == [stats |-> stats, ow |-> overworld]
       IN  /\ g.stats.xp >= xp_to_next_level(g)
           /\ stats' = LevelUp(g).stats
           /\ overworld' = LevelUp(g).ow
    /\ rounds' = rounds + 1
    /\ UNCHANGED last_op
    /\ RewardFrame

\* _grant_rewards: the loop condition fails, the loop is left
GrantDone ==
    /\ last_op.op = "loop"
    /\ ~(stats.xp >= xp_to_next_level([stats |-> stats, ow |-> overworld]))
    /\ last_op' = [last_op EXCEPT !.op = "done"]
    /\ UNCHANGED <<stats, overworld, rounds>>
    /\ RewardFrame

RewardNext ==
    \/ GrantStart
    \/ GrantLoop
    \/ GrantDone

RewardSpec == RewardInit /\ [][RewardNext]_vars

\* the XP it takes to go from level from to level to: the sum of l * base over from..to-1
XpCost(from, to, base) == base * ((to * (to - 1) - from * (from - 1)) \div 2)

\* the stat points of the levels from+1..to: 2 each, 4 for a multiple of 10
StatPoints(from, to) == 2 * (to - from) + 2 * ((to \div 10) - (from \div 10))

\* the skill points of the levels from+1..to: 1 each, 2 for a multiple of 5
SkillPoints(from, to) == (to - from) + ((to \div 5) - (from \div 5))

\* C13: the level-up loop of one reward grant runs once per level gained, at
\* most (xp + reward) / BASE_XP times, and when it is left 0 <= xp < level * BASE_XP,
\* the XP consumed is the sum of l * BASE_XP over the levels left, stat and skill
\* points are credited for each level reached and HP/SP are at their maxima if a
\* level was gained; the result is what _grant_rewards returns in one call.
C13_LevelUpLoop ==
    LET old == start.stats
        base == overworld.base_xp
    IN  /\ last_op.op \in {"loop", "done"}
           => /\ rounds = stats.level - old.level
              /\ rounds * base <= old.xp + last_op.xp_reward
        /\ last_op.op = "done"
           => /\ 0 <= stats.xp /\ stats.xp < stats.level * base
              /\ old.xp + last_op.xp_reward - stats.xp = XpCost(old.level, stats.level, base)
              /\ stats.unspent_points = old.unspent_points + StatPoints(old.level, stats.level)
              /\ overworld.skill_points = start.skill_points + SkillPoints(old.level, stats.level)
              /\ IF stats.level > old.level
                 THEN stats.current_hp = stats.max_hp /\ stats.current_sp = stats.max_sp
                 ELSE stats.current_hp = old.current_hp /\ stats.current_sp = old.current_sp
              /\ stats.money = old.money + last_op.money_reward
              /\ [stats |-> stats, ow |-> overworld]
                   = GrantRewards([stats |-> old,
                                   ow |-> [overworld EXCEPT !.skill_points = start.skill_points]],
                                  last_op)

\* C13 witness: one reward took the player from level 9 to level 12.
C13_Witness ==
    /\ last_op.op = "done" /\ start.stats.level = 9 /\ stats.level = 12
    /\ stats.unspent_points = 8
    /\ overworld.skill_points = start.skill_points + 4

\* C14: the acknowledgment of a DEFEAT leaves money = m - floor(0.30 * m), not
\* negative, current_hp = max(1, floor(0.60 * max_hp)) and current_sp = max_sp,
\* whatever the combat HP and the SP were.
C14_DefeatPenalty ==
    [][(combat.phase = "DEFEAT" /\ finished' # finished)
       => /\ stats'.money = stats.money - ((3 * stats.money) \div 10)
          /\ stats'.money >= 0
          /\ stats'.current_hp = Max(1, (3 * stats.max_hp) \div 5)
          /\ stats'.current_sp = stats.max_sp]_vars

\* C14 witness: a defeat with 133 scrap, acknowledged with SP spent.
C14_Witness ==
    /\ combat.phase = "DEFEAT" /\ finished = 1 /\ combat.player.hp = 0
    /\ start.stats.money = 133 /\ stats.money = 94
    /\ stats.current_hp = 18 /\ stats.current_sp = stats.max_sp
    /\ last_op.op = "Skill"

\* C15: at the acknowledgment of a VICTORY or a FLED the persistent current_hp
\* becomes clamp(combat hp - equipment max_hp bonus, 1, max_hp); the combat hp
\* started at current_hp + bonus, so a combat hp that ends where it started
\* leaves current_hp as it was.
C15_HpBonusRemoved ==
    [][(combat.phase \in {"VICTORY", "FLED"} /\ finished' # finished)
       => /\ stats'.current_hp
               = Min(Max(1, combat.player.hp - combat.eq_max_hp_bonus), stats.max_hp)
          /\ start.player.hp = start.stats.current_hp + combat.eq_max_hp_bonus
          /\ combat.player.hp = start.player.hp
               => stats'.current_hp = start.stats.current_hp]_vars

\* C15 witness: with the Servo Ring (+3 max HP) the player fled unhurt.
C15_Witness ==
    /\ combat.phase = "FLED" /\ finished = 1 /\ combat.eq_max_hp_bonus = 3
    /\ combat.player.hp = start.player.hp
    /\ stats.current_hp = start.stats.current_hp
    /\ stats.current_hp < stats.max_hp

\* C16: a cure leaves the player with no status, no Burn attack reduction and
\* the attack it had before the Burn, and a cure that follows a cure changes
\* nothing, whether it is the skill or item effect or the manager's cure_player.
C16_CureIdempotent ==
    [][last_op'.op = "cure"
       => /\ combat'.player_statuses = <<>>
          /\ combat'.burn_atk_reduction = 0
          /\ combat'.player.attack = start.player.attack
          /\ last_op.op = "cure" => (combat' = combat /\ stats' = stats)]_vars

\* C16 witness: a Burn was cured and the cure was applied again.
C16_Witness ==
    /\ last_op = StatusOp("cure", "Burn", "player", TRUE)
    /\ combat.player.attack = start.player.attack

\* C17: selecting a skill that costs more SP than the player has changes nothing:
\* SP, both combatants, defending, the debuff counters, the statuses, the inventory
\* and the phase (still SKILL_SELECT) stay as they were, the turn is not spent and
\* no enemy action is started; a skill the player can pay for costs exactly its
\* sp_cost and leaves the skill menu.
C17_NotEnoughSp ==
    [][(/\ combat.phase = "SKILL_SELECT"
        /\ last_op'.op \in {"Skill", "Refused"}
        /\ (last_op' # last_op \/ rounds' # rounds))
       => LET cost == SKILL_DEFS[last_op'.name].sp_cost
          IN  IF stats.current_sp < cost
              THEN /\ last_op'.op = "Refused"
                   /\ combat' = combat
                   /\ stats' = stats
                   /\ inventory' = inventory
                   /\ enemy_turns' = enemy_turns
                   /\ rounds' = rounds
                   /\ state_stack' = state_stack
                   /\ fade' = fade
              ELSE /\ last_op'.op = "Skill"
                   /\ stats'.current_sp = stats.current_sp - cost
                   /\ combat'.phase # "SKILL_SELECT"
                   /\ rounds' = rounds + 1]_vars

\* C17 witness: a skill was refused after the player had spent SP on earlier turns.
C17_Witness ==
    /\ last_op.op = "Refused"
    /\ combat.phase = "SKILL_SELECT"
    /\ stats.current_sp > 0
    /\ stats.current_sp < start.stats.current_sp
    /\ stats.current_sp < SKILL_DEFS[last_op.name].sp_cost

\* C18: opening the Item or Skill menu from CHOOSING, and cancelling it back to
\* CHOOSING, change the phase and nothing else: both combatants, the SP, the
\* inventory, the status lists, defending, the debuff counters and the timers are
\* as before, the turn is not spent and no enemy action is run.
C18_MenuRoundTrip ==
    [][(\/ /\ combat.phase = "CHOOSING"
           /\ combat'.phase \in {"ITEM_SELECT", "SKILL_SELECT"}
        \/ /\ combat.phase \in {"ITEM_SELECT", "SKILL_SELECT"}
           /\ combat'.phase = "CHOOSING")
       => /\ combat' = [combat EXCEPT !.phase = combat'.phase]
          /\ stats' = stats
          /\ inventory' = inventory
          /\ player_skills' = player_skills
          /\ enemy_turns' = enemy_turns
          /\ rounds' = rounds
          /\ state_stack' = state_stack
          /\ fade' = fade
          /\ combat'.phase = "CHOOSING" => last_op' = Op("Cancel", combat.phase)]_vars

\* C18 witness: the item menu was opened and cancelled in the middle of an
\* encounter, while the player carried a status.
C18_Witness ==
    /\ last_op = Op("Cancel", "ITEM_SELECT")
    /\ combat.phase = "CHOOSING"
    /\ rounds > 0
    /\ combat.player_statuses # <<>>
    /\ CombatActive

-----------------------------------------------------------------------------
(* player_stats.py: the hit chance, in hundredths *)

\* a hit chance with no upper clamp
calc_hit_chance_NoCap(attacker_dex, defender_dex) ==
    Max(30, 85 + (attacker_dex - defender_dex) * 3)

\* calc_hit_chance: max(0.30, min(0.99, 0.85 + diff * 0.03))
calc_hit_chance(attacker_dex, defender_dex) ==
    LET base == 85
        diff == attacker_dex - defender_dex
        chance == base + diff * 3
    IN  Max(30, Min(99, chance))

\* player_dex of _execute_player_action("Attack") and of _do_enemy_attack
player_dex(dexterity, eq_dex_bonus, despondent) ==
    dexterity + eq_dex_bonus - (IF despondent THEN DespondentDexPenalty ELSE 0)

\* the dexterity values the hit chance is computed for
DexValues == (-MaxDex..MaxDex) \cup {-1000, 1000}

HitInput(dexterity, despondent, enemy_dex) ==
    [op |-> "input", dexterity |-> dexterity, despondent |-> despondent,
     enemy_dex |-> enemy_dex, attacker_dex |-> 0, defender_dex |-> 0, result |-> 0]

HitInit ==
    /\ \E e \in Encounters :
          /\ stats = e.stats
          /\ inventory = e.inv
          /\ player_skills = e.skills
          /\ overworld = NewOverworld(e.scripted)
          /\ combat = NewCombat(ENEMY_TYPES[e.enemy], e.stats, e.eq)
    /\ state_stack = <<"overworld", "combat">>
    /\ fade = NoFade
    /\ enemy_turns = 0
    /\ finished = 0
    /\ rounds = 0
    /\ start = [stats |-> stats, player |-> combat.player]
    /\ \E dexterity \in DexValues, despondent \in BOOLEAN, enemy_dex \in DexValues :
          last_op = HitInput(dexterity, despondent, enemy_dex)

HitFrame ==
    UNCHANGED <<combat, stats, inventory, player_skills, overworld, state_stack, fade,
                enemy_turns, finished, rounds, start>>

\* the hit roll of the player's attack: calc_hit_chance(player_dex, enemy dexterity)
CalcPlayerHit ==
    /\ LET a == player_dex(last_op.dexterity, combat.eq_dex_bonus, last_op.despondent)
           d == last_op.enemy_dex
       IN  last_op' = [last_op EXCEPT !.op = "calc_hit_chance", !.attacker_dex = a,
                                      !.defender_dex = d, !.result = calc_hit_chance(a, d)]
    /\ HitFrame

\* the hit roll of the enemy's attack: calc_hit_chance(enemy dexterity, player_dex)
CalcEnemyHit ==
    /\ LET a == last_op.enemy_dex
           d == player_dex(last_op.dexterity, combat.eq_dex_bonus, last_op.despondent)
       IN  last_op' = [last_op EXCEPT !.op = "calc_hit_chance", !.attacker_dex = a,
                                      !.defender_dex = d, !.result = calc_hit_chance(a, d)]
    /\ HitFrame

HitNext ==
    \/ CalcPlayerHit
    \/ CalcEnemyHit

HitSpec == HitInit /\ [][HitNext]_vars

\* C19: for every pair of dexterities, differences of a thousand and more
\* included, calc_hit_chance is 0.85 + 0.03 * (attacker - defender) clamped to
\* [0.30, 0.99]: never under 0.30, never over 0.99, and 0.99 for 10 against 5.
C19_HitChanceClamped ==
    last_op.op = "calc_hit_chance"
    => LET diff == last_op.attacker_dex - last_op.defender_dex
           raw == 85 + 3 * diff
       IN  /\ last_op.result \in 30..99
           /\ last_op.result = (IF raw < 30 THEN 30 ELSE IF raw > 99 THEN 99 ELSE raw)
           /\ diff >= 5 => last_op.result = 99
           /\ diff <= -19 => last_op.result = 30
           /\ (last_op.attacker_dex = 10 /\ last_op.defender_dex = 5) => last_op.result = 99

\* C19 witness: the chance was computed for a defender a thousand points ahead.
C19_Witness ==
    /\ last_op.op = "calc_hit_chance"
    /\ last_op.attacker_dex - last_op.defender_dex = -1000
    /\ last_op.result = 30

-----------------------------------------------------------------------------
(* The damage rolls of one round, for every attack and defense up to MaxStat *)

DamageOp(op, hit, r, use_ability, defending) ==
    [op |-> op, hit |-> hit, r |-> r, use_ability |-> use_ability, defending |-> defending]

DamageInit ==
    /\ \E e \in Encounters :
          /\ stats = e.stats
          /\ inventory = e.inv
          /\ player_skills = e.skills
          /\ overworld = NewOverworld(e.scripted)
          /\ \E pa \in 0..MaxStat, pd \in 0..MaxStat, ea \in 0..MaxStat, ed \in 0..MaxStat :
                combat = [NewCombat(ENEMY_TYPES[e.enemy], e.stats, e.eq) EXCEPT
                             !.player.attack = pa, !.player.defense = pd,
                             !.enemy.attack = ea, !.enemy.defense = ed]
    /\ state_stack = <<"overworld", "combat">>
    /\ fade = NoFade
    /\ enemy_turns = 0
    /\ finished = 0
    /\ rounds = 0
    /\ last_op = DamageOp("none", FALSE, 0, FALSE, FALSE)
    /\ start = [stats |-> stats, player |-> combat.player]

DamageFrame ==
    /\ rounds' = rounds + 1
    /\ UNCHANGED <<player_skills, overworld, state_stack, fade, enemy_turns, finished, start>>

\* _execute_player_action("Attack")
DamageAttack ==
    /\ rounds = 0 /\ combat.phase = "CHOOSING"
    /\ \E hit \in BOOLEAN, r \in -1..1 :
          /\ Becomes(PlayerAttack(World, hit, r))
          /\ last_op' = DamageOp("Attack", hit, r, FALSE, combat.defending)
    /\ DamageFrame

\* _execute_player_action("Defend")
DamageDefend ==
    /\ rounds = 0 /\ combat.phase = "CHOOSING"
    /\ Becomes(PlayerDefend(World))
    /\ last_op' = DamageOp("Defend", FALSE, 0, FALSE, combat.defending)
    /\ DamageFrame

\* _do_enemy_attack, once the player's action has been shown
DamageEnemy ==
    /\ rounds = 1 /\ combat.phase = "PLAYER_ATTACK"
    /\ \E use_ability \in BOOLEAN, hit \in BOOLEAN, r \in -1..1 :
          /\ Becomes(DoEnemyAttack(World, use_ability, hit, r))
          /\ last_op' = DamageOp("Enemy", hit, r,
                                 use_ability /\ combat.enemy_data.ability # NoAbility,
                                 combat.defending)
    /\ DamageFrame

DamageNext ==
    \/ DamageAttack
    \/ DamageDefend
    \/ DamageEnemy

DamageSpec == DamageInit /\ [][DamageNext]_vars

\* C20: an attack that lands takes at least 1 hp whatever the attack, the defense
\* and the random offset: the player's basic attack takes max(1, atk - def + r);
\* the enemy's normal attack takes that amount, or max(1, amount div 2) from a
\* defending player; the enemy's special ability takes at least 1 and never more
\* than the normal attack; a miss takes nothing.
C20_DamageAtLeastOne ==
    [][LET o == last_op'
           amount == Max(1, combat.enemy.attack - combat.player.defense + o.r)
           half == Max(1, (combat.enemy.attack - combat.player.defense + o.r) \div 2)
       IN  /\ o.op = "Attack"
              => IF o.hit
                 THEN LET damage == Max(1, combat.player.attack - combat.enemy.defense + o.r)
                      IN  /\ combat'.enemy.hp = Max(0, combat.enemy.hp - damage)
                          /\ combat'.enemy.hp < combat.enemy.hp
                 ELSE combat'.enemy.hp = combat.enemy.hp
           /\ (o.op = "Enemy" /\ o.use_ability)
              => /\ combat'.player.hp =
                       Max(0, combat.player.hp - (IF o.defending THEN Max(1, half \div 2) ELSE half))
                 /\ combat'.player.hp < combat.player.hp
                 /\ combat'.player.hp >= combat.player.hp - amount
           /\ (o.op = "Enemy" /\ ~o.use_ability)
              => IF o.hit
                 THEN /\ combat'.player.hp =
                            Max(0, combat.player.hp
                                   - (IF o.defending THEN Max(1, amount \div 2) ELSE amount))
                      /\ combat'.player.hp < combat.player.hp
                 ELSE combat'.player.hp = combat.player.hp]_vars

\* C20 witness: the enemy's normal attack landed on a defending player whose
\* defense exceeds the enemy's attack, and took exactly 1 hp.
C20_Witness ==
    /\ last_op.op = "Enemy" /\ last_op.hit /\ ~last_op.use_ability /\ last_op.defending
    /\ combat.enemy.attack - combat.player.defense + last_op.r < 0
    /\ combat.player.hp = start.player.hp - 1

\* C21: the player's attack at the start of an encounter is 3 + strength + the
\* strength bonus of the equipment, and the defense is resilience + the
\* resilience bonus of the equipment.
C21_EquipmentInAttack ==
    /\ start.player.attack = 3 + start.stats.strength + combat.equipment.strength
    /\ start.player.defense = start.stats.resilience + combat.equipment.resilience

-----------------------------------------------------------------------------
(* skills.py: calc_skill_effect for every skill and every stat up to MaxSkillStat *)

SkillInit ==
    /\ \E intelligence \in 1..MaxSkillStat, strength \in 1..MaxSkillStat :
          stats = [PlayerStats(30, 10) EXCEPT !.intelligence = intelligence,
                                              !.strength = strength]
    /\ \E eq \in {NoEquipment, NeuralLink} :
          combat = NewCombat(ENEMY_TYPES.ScrapRat, stats, eq)
    /\ inventory = Items(0, 0, 0, 0)
    /\ player_skills = SkillIds
    /\ overworld = NewOverworld(FALSE)
    /\ state_stack = <<"overworld", "combat">>
    /\ fade = NoFade
    /\ enemy_turns = 0
    /\ finished = 0
    /\ rounds = 0
    /\ last_op = [op |-> "none", name |-> "", stat_value |-> 0, result |-> 0]
    /\ start = [stats |-> stats, player |-> combat.player]

\* value = calc_skill_effect(skill, combat_stats) of _use_combat_skill
CalcSkillEffect ==
    /\ \E skill_id \in player_skills :
          LET skill == SKILL_DEFS[skill_id]
              combat_stats == CombatStats(World)
          IN  last_op' = [op |-> "calc_skill_effect", name |-> skill_id,
                          stat_value |-> IF skill.stat_scaling = "intelligence"
                                         THEN combat_stats.intelligence
                                         ELSE IF skill.stat_scaling = "strength"
                                         THEN combat_stats.strength
                                         ELSE 3,
                          result |-> calc_skill_effect(skill, combat_stats)]
    /\ UNCHANGED <<combat, stats, inventory, player_skills, overworld, state_stack, fade,
                   enemy_turns, finished, rounds, start>>

SkillNext == CalcSkillEffect

SkillSpec == SkillInit /\ [][SkillNext]_vars

\* C22: for every skill and stat value calc_skill_effect is at least 1 and is
\* base_value * (1 + (stat_value - 3) * scaling_factor) rounded to the nearest
\* integer (either neighbour on a tie), or 1 when that is less than 1; the stat
\* value is 3 for a skill that scales with nothing.
C22_SkillEffectRounded ==
    last_op.op = "calc_skill_effect"
    => LET skill == SKILL_DEFS[last_op.name]
           hundredths == skill.base_value * (100 + (last_op.stat_value - 3) * skill.scaling_factor)
           gap == 100 * last_op.result - hundredths
       IN  /\ last_op.result >= 1
           /\ skill.stat_scaling = "none" => last_op.stat_value = 3
           /\ \/ last_op.result = 1 /\ hundredths <= 150
              \/ gap \in -50..50

-----------------------------------------------------------------------------
(* player_stats.py: calc_debuff_duration for every base duration and constitution *)

DurationInit ==
    /\ \E constitution \in -MaxCon..MaxCon :
          stats = [PlayerStats(30, 10) EXCEPT !.constitution = constitution]
    /\ combat = NewCombat(ENEMY_TYPES.WireSpider, stats, NoEquipment)
    /\ inventory = Items(0, 0, 0, 0)
    /\ player_skills = {}
    /\ overworld = NewOverworld(FALSE)
    /\ state_stack = <<"overworld", "combat">>
    /\ fade = NoFade
    /\ enemy_turns = 0
    /\ finished = 0
    /\ rounds = 0
    /\ last_op = [op |-> "none", base_turns |-> 0, constitution |-> 0, result |-> 0]
    /\ start = [stats |-> stats, player |-> combat.player]

\* duration = calc_debuff_duration(duration, self.player_stats.constitution) of _apply_status
CalcDebuffDuration ==
    /\ \E base_turns \in 1..MaxTurns :
          last_op' = [op |-> "calc_debuff_duration", base_turns |-> base_turns,
                      constitution |-> stats.constitution,
                      result |-> calc_debuff_duration(base_turns, stats.constitution)]
    /\ UNCHANGED <<combat, stats, inventory, player_skills, overworld, state_stack, fade,
                   enemy_turns, finished, rounds, start>>

DurationNext == CalcDebuffDuration

DurationSpec == DurationInit /\ [][DurationNext]_vars

\* C23: for every base_turns >= 1 and every constitution, calc_debuff_duration is
\* max(1, base_turns - max(0, (constitution - 3) div 3)): it lies in
\* 1..base_turns, is base_turns up to constitution 5, and one more point of
\* constitution never makes it longer.
C23_DebuffDuration ==
    last_op.op = "calc_debuff_duration"
    => LET b == last_op.base_turns
           c == last_op.constitution
           reduction == IF c < 6 THEN 0 ELSE (c - 3) \div 3
       IN  /\ last_op.result = (IF b - reduction < 1 THEN 1 ELSE b - reduction)
           /\ last_op.result \in 1..b
           /\ c <= 5 => last_op.result = b
           /\ calc_debuff_duration(b, c + 1) <= last_op.result
           /\ calc_debuff_duration(b, c - 1) >= last_op.result

\* C23 witness: a duration of 3 turns is cut to the floor of 1 turn by a
\* constitution that would take more than 2 turns off.
C23_Witness ==
    /\ last_op.op = "calc_debuff_duration"
    /\ last_op.base_turns = 3
    /\ last_op.constitution >= 15
    /\ last_op.result = 1

StunsOf(statuses) == SelectSeq(statuses, LAMBDA st : st.name = "Stun")

\* C24 (as claimed): the end-of-turn status tick neither decrements nor removes
\* a Stun, on the player or on the enemy: the Stun entries of both status lists
\* are the same after a tick as before it.
C24_TickKeepsStun ==
    [][last_op'.op = "tick"
       => /\ StunsOf(combat'.player_statuses) = StunsOf(combat.player_statuses)
          /\ StunsOf(combat'.enemy_statuses) = StunsOf(combat.enemy_statuses)]_vars

-----------------------------------------------------------------------------
(* One Poison or Burn, applied once and ticked until after it has worn off *)

DotInit ==
    /\ \E constitution \in 1..MaxCon, hp \in 1..MaxDotHp :
          /\ stats = [PlayerStats(hp, 10) EXCEPT !.constitution = constitution]
          /\ combat = [NewCombat(ENEMY_TYPES.WireSpider, stats, NoEquipment) EXCEPT !.enemy.hp = hp]
    /\ inventory = Items(0, 0, 0, 0)
    /\ player_skills = {}
    /\ overworld = NewOverworld(FALSE)
    /\ state_stack = <<"overworld", "combat">>
    /\ fade = NoFade
    /\ enemy_turns = 0
    /\ finished = 0
    /\ rounds = 0
    /\ last_op = [op |-> "none", name |-> "", target |-> "", duration |-> 0, messages |-> <<>>]
    /\ start = [stats |-> stats, player |-> combat.player]

DotFrame ==
    UNCHANGED <<player_skills, overworld, state_stack, fade, enemy_turns, finished, start>>

\* _apply_status(target, effect_name) on a combatant that has no status
DotApply ==
    /\ last_op.op = "none"
    /\ \E target \in {"player", "enemy"}, effect_name \in {"Poison", "Burn"} :
          LET w == ApplyStatus(World, target, effect_name)
              statuses == IF target = "player" THEN w.c.player_statuses ELSE w.c.enemy_statuses
          IN  /\ Becomes(w)
              /\ last_op' = [op |-> "apply", name |-> effect_name, target |-> target,
                             duration |-> statuses[1].turns_remaining, messages |-> <<>>]
    /\ rounds' = rounds
    /\ DotFrame

\* _tick_statuses(); rounds counts the ticks since the status was applied
DotTick ==
    /\ last_op.op # "none"
    /\ rounds < MaxTicks
    /\ Becomes(TickStatuses(World))
    /\ last_op' = [last_op EXCEPT !.op = "tick", !.messages = TickMessages(World)]
    /\ rounds' = rounds + 1
    /\ DotFrame

DotNext ==
    \/ DotApply
    \/ DotTick

DotSpec == DotInit /\ [][DotNext]_vars

CountOf(messages, kind) ==
    Cardinality({i \in DOMAIN messages : messages[i].kind = kind})

\* C25: a Poison or Burn applied with duration d (3 on the enemy; 3 less the
\* constitution reduction, at least 1, on the player) and neither refreshed nor
\* cured takes its damage (Poison 2, Burn 1, hp not below 0) on each of the next d
\* ticks and on no later one, is in the status list until the d-th tick removes
\* it, and is reported worn off exactly once, by the d-th tick; a Burn on the
\* player holds the attack down by 2 until that tick and gives it back then.
C25_DotRunsItsDuration ==
    [][LET o == last_op'
           d == o.duration
           k == rounds'
           damage == IF o.name = "Poison" THEN 2 ELSE 1
           before == IF o.target = "player" THEN combat.player ELSE combat.enemy
           after == IF o.target = "player" THEN combat'.player ELSE combat'.enemy
           left == IF o.target = "player" THEN combat'.player_statuses
                   ELSE combat'.enemy_statuses
       IN  /\ o.op = "apply"
              => /\ d \in 1..3
                 /\ d = (IF o.target = "enemy" \/ stats.constitution < 6 THEN 3
                         ELSE IF stats.constitution < 9 THEN 2 ELSE 1)
                 /\ left = <<[name |-> o.name, turns_remaining |-> d]>>
                 /\ after.hp = before.hp
           /\ o.op = "tick"
              => /\ after.hp = (IF k > d THEN before.hp
                                ELSE IF before.hp > damage THEN before.hp - damage ELSE 0)
                 /\ HasStatus(left, o.name) <=> k < d
                 /\ k < d => left = <<[name |-> o.name, turns_remaining |-> d - k]>>
                 /\ CountOf(o.messages, "wore_off") = (IF k = d THEN 1 ELSE 0)
                 /\ CountOf(o.messages, "damage") = (IF k <= d THEN 1 ELSE 0)
                 /\ (o.name = "Burn" /\ o.target = "player")
                    => combat'.player.attack =
                          (IF k < d THEN start.player.attack - 2 ELSE start.player.attack)]_vars

\* C25 witness: a Poison of 3 turns on the player has been ticked three times,
\* took 2 hp each time and is gone.
C25_Witness ==
    /\ last_op.op = "tick" /\ last_op.name = "Poison" /\ last_op.target = "player"
    /\ last_op.duration = 3 /\ rounds = 3
    /\ combat.player_statuses = <<>>
    /\ combat.player.hp = start.player.hp - 6
    /\ combat.player.hp > 0
    /\ CountOf(last_op.messages, "wore_off") = 1

\* the turns left of the named status, 0 when it is absent
TurnsOf(statuses, name) ==
    IF HasStatus(statuses, name)
    THEN (CHOOSE st \in {statuses[i] : i \in DOMAIN statuses} : st.name = name).turns_remaining
    ELSE 0

\* C26: in every state of an encounter burn_atk_reduction is 0 or 2, it is 2
\* exactly when the player carries a Burn, and player.attack + burn_atk_reduction
\* is the attack the player started with; a Burn applied while one is active only
\* refreshes the duration: the attack, the reduction and the number of statuses
\* stay as they are.
C26_BurnReduction ==
    /\ [](/\ combat.burn_atk_reduction \in {0, 2}
          /\ combat.burn_atk_reduction = 2 <=> HasStatus(combat.player_statuses, "Burn")
          /\ combat.player.attack + combat.burn_atk_reduction = start.player.attack)
    /\ [][(/\ HasStatus(combat.player_statuses, "Burn")
           /\ TurnsOf(combat'.player_statuses, "Burn") > TurnsOf(combat.player_statuses, "Burn"))
          => /\ combat'.player.attack = combat.player.attack
             /\ combat'.burn_atk_reduction = 2
             /\ Len(combat'.player_statuses) = Len(combat.player_statuses)
             /\ last_op' = Op("Refreshed", "Burn")]_vars

\* C26 witness: the Relay Crawler burned a player who was burning already.
C26_Witness ==
    /\ last_op = Op("Refreshed", "Burn")
    /\ TurnsOf(combat.player_statuses, "Burn") = 3
    /\ combat.burn_atk_reduction = 2
    /\ combat.player.attack = start.player.attack - 2
    /\ combat.phase = "ENEMY_ATTACK"

-----------------------------------------------------------------------------
(* Burn on the enemy and the debuff skills, in any order *)

EnemyStatOp(op, attack, burn) == [op |-> op, attack |-> attack, burn |-> burn]

EnemyStatInit ==
    /\ \E e \in Encounters :
          /\ stats = e.stats
          /\ inventory = e.inv
          /\ player_skills = {"overclock", "emp_pulse"}
          /\ overworld = NewOverworld(e.scripted)
          /\ combat = NewCombat(ENEMY_TYPES[e.enemy], e.stats, e.eq)
    /\ state_stack = <<"overworld", "combat">>
    /\ fade = NoFade
    /\ enemy_turns = 0
    /\ finished = 0
    /\ rounds = 0
    /\ last_op = EnemyStatOp("none", combat.enemy.attack, FALSE)
    /\ start = [stats |-> stats, player |-> combat.player]

\* every operation records the enemy's attack before it and whether a Burn was on the enemy
EnemyStatFrame(op) ==
    /\ last_op' = EnemyStatOp(op, combat.enemy.attack, HasStatus(combat.enemy_statuses, "Burn"))
    /\ UNCHANGED <<player_skills, overworld, state_stack, fade, enemy_turns, finished, rounds, start>>

\* _apply_status("enemy", "Burn")
EnemyBurn ==
    /\ Becomes(ApplyStatus(World, "enemy", "Burn"))
    /\ EnemyStatFrame("burn")

\* _tick_statuses()
EnemyStatusTick ==
    /\ Becomes(TickStatuses(World))
    /\ EnemyStatFrame("tick")

\* the debuff_attack branch of _use_combat_skill
EnemyDebuffCast ==
    /\ \E skill_id \in player_skills :
          LET skill == SKILL_DEFS[skill_id]
          IN  Becomes(DebuffAttack(World, skill, calc_skill_effect(skill, CombatStats(World))))
    /\ EnemyStatFrame("cast")

\* the debuff countdown of update
EnemyDebuffTick ==
    /\ Becomes(TickDebuff(World))
    /\ EnemyStatFrame("countdown")

EnemyStatNext ==
    \/ EnemyBurn
    \/ EnemyStatusTick
    \/ EnemyDebuffCast
    \/ EnemyDebuffTick

EnemyStatSpec == EnemyStatInit /\ [][EnemyStatNext]_vars

\* C27: whatever the order of Burn applications and expiries on the enemy,
\* debuff casts and debuff expiries, the enemy's attack stays within
\* 0..enemy_base_attack and its defense within 0..enemy_base_defense, and the
\* base values themselves never change.
C27_EnemyStatsWithinBase ==
    /\ 0 <= combat.enemy.attack /\ combat.enemy.attack <= combat.enemy_base_attack
    /\ 0 <= combat.enemy.defense /\ combat.enemy.defense <= combat.enemy_base_defense
    /\ combat.enemy_base_attack = combat.enemy_data.attack
    /\ combat.enemy_base_defense = combat.enemy_data.defense

\* C27 witness: a Burn expired on an enemy whose attack a debuff expiry had
\* already put back to the base, and the attack is still the base.
C27_Witness ==
    /\ last_op.op = "tick" /\ last_op.burn
    /\ ~HasStatus(combat.enemy_statuses, "Burn")
    /\ last_op.attack = combat.enemy_base_attack
    /\ combat.enemy.attack = combat.enemy_base_attack
    /\ combat.debuff_turns_remaining = 0

\* C28: the countdown of a debuff_attack cast is 3 after the cast and is
\* decremented by every end-of-round step, and by nothing else, so the debuff is
\* in force for the next three enemy actions; the step that brings it to 0
\* restores the enemy's attack and defense to their base values and zeroes both
\* debuff amounts; in every state the countdown is positive exactly when the
\* attack debuff amount is, and the enemy's stats are the base less the amounts.
C28_DebuffCountdown ==
    /\ [](/\ combat.debuff_turns_remaining \in 0..3
          /\ combat.debuff_turns_remaining > 0 <=> combat.enemy_atk_debuff > 0
          /\ combat.enemy_def_debuff > 0 => combat.debuff_turns_remaining > 0
          /\ combat.enemy.attack = Max(0, combat.enemy_base_attack - combat.enemy_atk_debuff)
          /\ combat.enemy.defense = Max(0, combat.enemy_base_defense - combat.enemy_def_debuff))
    /\ [][/\ (combat.phase = "ENEMY_ATTACK" /\ combat'.phase # "ENEMY_ATTACK"
                /\ combat.debuff_turns_remaining > 0)
             => combat'.debuff_turns_remaining = combat.debuff_turns_remaining - 1
          /\ (combat'.debuff_turns_remaining # combat.debuff_turns_remaining)
             => \/ /\ combat.phase = "SKILL_SELECT"
                   /\ combat'.debuff_turns_remaining = 3
                \/ /\ combat.phase = "ENEMY_ATTACK" /\ combat'.phase # "ENEMY_ATTACK"
                   /\ combat'.debuff_turns_remaining = combat.debuff_turns_remaining - 1
          /\ (combat.debuff_turns_remaining > 0 /\ combat'.debuff_turns_remaining = 0)
             => /\ combat'.enemy.attack = combat.enemy_base_attack
                /\ combat'.enemy.defense = combat.enemy_base_defense
                /\ combat'.enemy_atk_debuff = 0
                /\ combat'.enemy_def_debuff = 0
          /\ (combat.phase = "PLAYER_ATTACK" /\ combat'.phase = "ENEMY_ATTACK")
             => /\ combat'.debuff_turns_remaining = combat.debuff_turns_remaining
                /\ combat'.enemy.attack = combat.enemy.attack
                /\ combat'.enemy.defense = combat.enemy.defense]_vars

\* C28 witness: EMP Pulse (5 of 10 SP) was cast on the first turn and no skill
\* after it (8 SP after three regenerations); the third end-of-round step has
\* run and the Volt Wraith has its base attack and defense again.
C28_Witness ==
    /\ rounds = 3 /\ last_op = Op("Attack", "") /\ combat.phase = "CHOOSING"
    /\ start.stats.current_sp = 10 /\ stats.current_sp = 8 /\ combat.eq_max_sp_bonus = 0
    /\ "emp_pulse" \in player_skills
    /\ combat.debuff_turns_remaining = 0
    /\ combat.enemy_atk_debuff = 0 /\ combat.enemy_def_debuff = 0
    /\ combat.enemy.attack = combat.enemy_base_attack
    /\ combat.enemy.defense = combat.enemy_base_defense

-----------------------------------------------------------------------------
(* The end-of-round step, for every hp up to MaxRoundHp and every set of statuses *)

\* an end of round records the enemy's hp before it and whether the enemy was poisoned
RoundOp(op, enemy_hp, poisoned) == [op |-> op, enemy_hp |-> enemy_hp, poisoned |-> poisoned]

\* the enemy has just acted: the phase is ENEMY_ATTACK
RoundInit ==
    /\ \E e \in Encounters :
          /\ stats = e.stats
          /\ inventory = e.inv
          /\ player_skills = {"overclock", "emp_pulse"}
          /\ overworld = NewOverworld(e.scripted)
          /\ \E player_hp \in 1..MaxRoundHp, enemy_hp \in 1..MaxRoundHp :
                combat = [NewCombat(ENEMY_TYPES[e.enemy], e.stats, e.eq) EXCEPT
                             !.player.hp = player_hp, !.enemy.hp = enemy_hp,
                             !.phase = "ENEMY_ATTACK"]
    /\ state_stack = <<"overworld", "combat">>
    /\ fade = NoFade
    /\ enemy_turns = 0
    /\ finished = 0
    /\ rounds = 0
    /\ last_op = RoundOp("none", 0, FALSE)
    /\ start = [stats |-> stats, player |-> combat.player]

RoundFrame ==
    UNCHANGED <<player_skills, overworld, state_stack, fade, enemy_turns, finished, start>>

\* _apply_status(target, effect_name)
RoundApply ==
    /\ combat.phase = "ENEMY_ATTACK"
    /\ \E target \in {"player", "enemy"}, effect_name \in {"Poison", "Burn", "Stun"} :
          Becomes(ApplyStatus(World, target, effect_name))
    /\ last_op' = RoundOp("apply", 0, FALSE)
    /\ rounds' = rounds
    /\ RoundFrame

\* the debuff_attack branch of _use_combat_skill
RoundCast ==
    /\ combat.phase = "ENEMY_ATTACK"
    /\ \E skill_id \in player_skills :
          LET skill == SKILL_DEFS[skill_id]
          IN  Becomes(DebuffAttack(World, skill, calc_skill_effect(skill, CombatStats(World))))
    /\ last_op' = RoundOp("cast", 0, FALSE)
    /\ rounds' = rounds
    /\ RoundFrame

\* update(dt), ENEMY_ATTACK, once the timer has elapsed
RoundEnd ==
    /\ combat.phase = "ENEMY_ATTACK"
    /\ Becomes(EndOfRound(World))
    /\ last_op' = RoundOp("end", combat.enemy.hp, HasStatus(combat.enemy_statuses, "Poison"))
    /\ rounds' = rounds + 1
    /\ RoundFrame

RoundNext ==
    \/ RoundApply
    \/ RoundCast
    \/ RoundEnd

RoundSpec == RoundInit /\ [][RoundNext]_vars

\* the damage one tick takes from a combatant with these statuses
TickLoss(statuses) ==
    (IF HasStatus(statuses, "Poison") THEN 2 ELSE 0) + (IF HasStatus(statuses, "Burn") THEN 1 ELSE 0)

\* C29: the end-of-round step runs the debuff countdown, then the status tick,
\* then the death check, then the SP regeneration: the countdown and the tick
\* damage happen in every such step; if the tick leaves the enemy at 0 hp the
\* phase is VICTORY, else if it leaves the player at 0 hp the phase is DEFEAT,
\* and in both cases the SP is untouched; otherwise the SP becomes
\* min(combat max SP, sp + 1 + max(0, (intelligence - 3) div 3)), the
\* intelligence and the maximum including the equipment bonuses.
C29_EndOfRoundOrder ==
    [][(combat.phase = "ENEMY_ATTACK" /\ combat'.phase # "ENEMY_ATTACK")
       => LET intel == stats.intelligence + combat.eq_int_bonus
              regen == 1 + (IF intel < 6 THEN 0 ELSE (intel - 3) \div 3)
              max_sp == stats.max_sp + combat.eq_max_sp_bonus
              player_hp == Max(0, combat.player.hp - TickLoss(combat.player_statuses))
              enemy_hp == Max(0, combat.enemy.hp - TickLoss(combat.enemy_statuses))
          IN  /\ combat'.player.hp = player_hp
              /\ combat'.enemy.hp = enemy_hp
              /\ combat'.debuff_turns_remaining = Max(0, combat.debuff_turns_remaining - 1)
              /\ IF enemy_hp = 0
                 THEN combat'.phase = "VICTORY" /\ stats'.current_sp = stats.current_sp
                 ELSE IF player_hp = 0
                 THEN combat'.phase = "DEFEAT" /\ stats'.current_sp = stats.current_sp
                 ELSE /\ combat'.phase \in {"CHOOSING", "PLAYER_ATTACK"}
                      /\ stats'.current_sp = Min(max_sp, stats.current_sp + regen)]_vars

\* C29 witness: the tick of a Poison killed the enemy at the end of a round, the
\* phase is VICTORY and the player, short of SP, regained none.
C29_Witness ==
    /\ last_op.op = "end" /\ last_op.enemy_hp > 0 /\ last_op.poisoned
    /\ combat.enemy.hp = 0 /\ combat.player.hp > 0
    /\ combat.phase = "VICTORY"
    /\ stats.current_sp = start.stats.current_sp
    /\ stats.current_sp < stats.max_sp

-----------------------------------------------------------------------------
(* Scrap Leech, for every intelligence up to MaxInt and every hp of both sides *)

\* the skill menu is open on Scrap Leech
DrainInit ==
    /\ \E intelligence \in 1..MaxInt, gap \in 0..MaxGap, enemy_hp \in 1..MaxDrainHp :
          /\ stats = [PlayerStats(30 - gap, 10) EXCEPT !.intelligence = intelligence]
          /\ combat = [NewCombat(ENEMY_TYPES.VoltWraith, stats, NoEquipment) EXCEPT
                          !.enemy.hp = enemy_hp, !.phase = "SKILL_SELECT"]
    /\ inventory = Items(0, 0, 0, 0)
    /\ player_skills = {"scrap_leech"}
    /\ overworld = NewOverworld(FALSE)
    /\ state_stack = <<"overworld", "combat">>
    /\ fade = NoFade
    /\ enemy_turns = -1
    /\ finished = 0
    /\ rounds = 0
    /\ last_op = Op("none", "")
    /\ start = [stats |-> stats, player |-> combat.player, enemy |-> combat.enemy]

DrainNext ==
    \/ KeyUseSkill
    \/ UpdatePlayerAttack

DrainSpec == DrainInit /\ [][DrainNext]_vars

\* C30: a drain skill computes one value v and uses it twice: the enemy's hp
\* becomes max(0, hp - v) and the player's min(max_hp, hp + v), so the player is
\* healed by min(v, max_hp - hp) whatever hp the enemy had left; if the enemy had
\* no more than v hp the phase is VICTORY in the same step and no enemy action
\* follows; otherwise the phase is PLAYER_ATTACK.
C30_DrainUsesOneValue ==
    [][/\ (last_op'.op = "Skill" /\ rounds' = rounds + 1
             /\ SKILL_DEFS[last_op'.name].effect_type = "drain")
          => LET v == calc_skill_effect(SKILL_DEFS[last_op'.name], CombatStats(World))
                 room == combat.player.max_hp - combat.player.hp
             IN  /\ combat'.enemy.hp = (IF combat.enemy.hp > v THEN combat.enemy.hp - v ELSE 0)
                 /\ combat'.player.hp - combat.player.hp = (IF v < room THEN v ELSE room)
                 /\ combat'.phase = (IF combat.enemy.hp > v THEN "PLAYER_ATTACK" ELSE "VICTORY")
                 /\ enemy_turns' = (IF combat.enemy.hp > v THEN 0 ELSE enemy_turns)
       /\ combat.phase = "VICTORY"
          => /\ enemy_turns' = enemy_turns
             /\ combat'.player.hp = combat.player.hp
             /\ combat'.phase = "VICTORY"]_vars

\* C30 witness: Scrap Leech with a value of 8 (intelligence 15) was cast on an
\* enemy with 5 hp: the enemy is at 0, the player gained the full 8 hp, the phase
\* is VICTORY and the enemy has not acted.
C30_Witness ==
    /\ last_op = Op("Skill", "scrap_leech")
    /\ calc_skill_effect(SKILL_DEFS.scrap_leech, stats) = 8
    /\ start.enemy.hp = 5 /\ combat.enemy.hp = 0
    /\ combat.player.hp = start.player.hp + 8
    /\ combat.phase = "VICTORY"
    /\ enemy_turns = -1

-----------------------------------------------------------------------------
(* The end of an encounter happens once *)

\* C31: _finish_combat runs at most once per encounter; while the fade is on top
\* of the stack no key or frame reaches the combat state, so the combat, the
\* inventory and the count of _finish_combat runs stay as they are; the stats and
\* the overworld change after the acknowledgment only in the one step in which the
\* fade's callback runs, and never after it; once the callback has run the combat
\* state is off the stack.
C31_RewardsGrantedOnce ==
    /\ [](finished <= 1)
    /\ [](fade.callback_done => \A i \in DOMAIN state_stack : state_stack[i] # "combat")
    /\ [][/\ active_state = "fade"
             => (combat' = combat /\ inventory' = inventory /\ finished' = finished)
          /\ (finished = 1 /\ (stats' # stats \/ overworld' # overworld))
             => (~fade.callback_done /\ fade'.callback_done)
          /\ (~fade.callback_done /\ fade'.callback_done /\ fade.kind = "VICTORY")
             => /\ stats'.money = stats.money + combat.enemy_data.money_reward
                /\ combat'.player.defense = combat.player.defense
          /\ fade.callback_done => fade'.callback_done]_vars

\* C31 witness: a key was pressed while the fade of a won encounter was fading
\* back in; the end-of-encounter step ran once, the money reward is in once and
\* the combat state is off the stack.
C31_Witness ==
    /\ last_op = Op("Swallowed", "in")
    /\ fade.kind = "VICTORY" /\ fade.callback_done
    /\ finished = 1
    /\ stats.money = start.stats.money + combat.enemy_data.money_reward
    /\ \A i \in DOMAIN state_stack : state_stack[i] # "combat"

-----------------------------------------------------------------------------
(* Phase and hp *)

\* C32: in CHOOSING, ITEM_SELECT, SKILL_SELECT, PLAYER_ATTACK, ENEMY_ATTACK and
\* FLED both combatants have hp > 0; in VICTORY the enemy's hp is 0; in DEFEAT the
\* player's hp is 0 and the enemy's is above 0.
C32_PhaseAgreesWithHp ==
    /\ combat.phase \in {"CHOOSING", "ITEM_SELECT", "SKILL_SELECT", "PLAYER_ATTACK",
                         "ENEMY_ATTACK", "FLED"}
       => (combat.player.hp > 0 /\ combat.enemy.hp > 0)
    /\ combat.phase = "VICTORY" => combat.enemy.hp = 0
    /\ combat.phase = "DEFEAT" => (combat.player.hp = 0 /\ combat.enemy.hp > 0)

\* C32 witness: the end-of-round Poison tick took the player's last hp: the phase
\* is DEFEAT, the player is at 0 and the enemy has hp left.
C32_Witness ==
    /\ combat.phase = "DEFEAT" /\ combat.phase_timer <= 0
    /\ HasStatus(combat.player_statuses, "Poison")
    /\ combat.player.hp = 0 /\ combat.enemy.hp > 0

-----------------------------------------------------------------------------
(* The end of a round in which both combatants carry a damaging status, with *)
(* up to MaxMutualHp hp each, followed to the end of the encounter.          *)

\* the enemy's action is over; both combatants are poisoned or burning
MutualInit ==
    /\ \E e \in Encounters :
          /\ stats = e.stats
          /\ inventory = e.inv
          /\ player_skills = e.skills
          /\ overworld = NewOverworld(e.scripted)
          /\ \E player_hp \in 1..MaxMutualHp, enemy_hp \in 1..MaxMutualHp,
                player_dot \in {"Poison", "Burn"}, enemy_dot \in {"Poison", "Burn"} :
                LET c0 == [NewCombat(ENEMY_TYPES[e.enemy], e.stats, e.eq) EXCEPT
                              !.player.hp = player_hp, !.enemy.hp = enemy_hp,
                              !.phase = "ENEMY_ATTACK", !.phase_timer = PhaseTimerAction]
                    w0 == [c |-> c0, stats |-> e.stats, inv |-> e.inv]
                IN  combat = ApplyStatus(ApplyStatus(w0, "player", player_dot),
                                         "enemy", enemy_dot).c
    /\ state_stack = <<"overworld", "combat">>
    /\ fade = NoFade
    /\ enemy_turns = 0
    /\ finished = 0
    /\ rounds = 0
    /\ last_op = Op("none", "")
    /\ start = [stats |-> stats, player |-> combat.player]

MutualNext ==
    \/ UpdateEnemyAttack
    \/ KeyAcknowledge
    \/ FadeKey
    \/ FadeOut
    \/ FadeIn
    \/ LevelUpDismiss
    \/ DeathScreenDismiss

MutualSpec == MutualInit /\ [][MutualNext]_vars

\* C33: when the end-of-round tick leaves both combatants at 0 hp the phase
\* becomes VICTORY; both at 0 hp is only ever seen in VICTORY and never puts the
\* death screen on the stack; acknowledging it takes no scrap, leaves the SP as
\* they are and syncs the HP to 1 rather than to 60% of the maximum; the fade's
\* callback then grants the enemy's money reward.
C33_MutualKillIsVictory ==
    /\ [](combat.player.hp = 0 /\ combat.enemy.hp = 0
          => /\ combat.phase = "VICTORY"
             /\ \A i \in DOMAIN state_stack : state_stack[i] # "death_screen"
             /\ stats.money >= start.stats.money)
    /\ [][(combat.player.hp = 0 /\ combat.enemy.hp = 0)
          => /\ finished' # finished
                => /\ stats'.money = stats.money
                   /\ stats'.current_sp = stats.current_sp
                   /\ stats'.current_hp = 1
                   /\ fade'.kind = "VICTORY"
             /\ (~fade.callback_done /\ fade'.callback_done)
                => /\ stats'.money = stats.money + combat.enemy_data.money_reward
                   /\ stats'.xp + (stats'.level - stats.level) * stats.level * overworld.base_xp
                         = stats.xp + combat.enemy_data.xp_reward]_vars

\* C33 witness: Poison took the last 2 hp of both combatants in one tick; the
\* encounter was acknowledged as a victory and the money reward is in.
C33_Witness ==
    /\ start.player.hp = 2 /\ combat.player.hp = 0 /\ combat.enemy.hp = 0
    /\ combat.phase = "VICTORY" /\ fade.kind = "VICTORY" /\ fade.callback_done
    /\ stats.current_hp >= 1
    /\ stats.money = start.stats.money + combat.enemy_data.money_reward

-----------------------------------------------------------------------------
(* The enemy's attack and defense under Burn, debuffs and the clearing of   *)
(* all statuses, in any order.                                              *)

\* StatusEffectManager.clear_all(player_entity)
EnemyClearAll ==
    /\ Becomes(clear_all(World))
    /\ EnemyStatFrame("clear")

EnemyClearNext ==
    \/ EnemyBurn
    \/ EnemyStatusTick
    \/ EnemyDebuffCast
    \/ EnemyDebuffTick
    \/ EnemyClearAll

EnemyClearSpec == EnemyStatInit /\ [][EnemyClearNext]_vars

-----------------------------------------------------------------------------
(* CombatState's inline status logic against StatusEffectManager *)

\* C35: whatever sequence of operations led to a state, applying a status with
\* _apply_status, ticking with _tick_statuses or curing with a cure_status branch
\* leaves exactly the state that StatusEffectManager.apply_status (with the
\* player's constitution and both entities), tick and cure_player produce from the
\* same state: the same status lists, burn_atk_reduction, hp and attack values;
\* and the tick's messages are the same, in the same order. Step by step, the
\* two therefore stay equal over any sequence of operations. A tick or a cure
\* would agree from every state passed through, whichever operation comes next.
C35_ManagerMatchesInline ==
    [][LET after == [c |-> combat', stats |-> stats', inv |-> inventory']
       IN  /\ last_op'.op = "apply"
              => after = apply_status(World, last_op'.target, last_op'.name, stats.constitution)
           /\ last_op'.op = "tick"
              => /\ after = tick(World).w
                 /\ TickMessages(World) = tick(World).messages
           /\ last_op'.op = "cure"
              => after = cure_player(World)
           /\ TickStatuses(World) = tick(World).w
           /\ CurePlayer(World) = cure_player(World)]_vars

\* C35 witness: the third tick ended a Burn on the player (3 hp lost, the 2
\* attack given back) while the enemy is still poisoned.
C35_Witness ==
    /\ last_op.op = "tick"
    /\ combat.player_statuses = <<>>
    /\ combat.player.hp = start.player.hp - 3 * BurnTickDamage
    /\ combat.burn_atk_reduction = 0
    /\ combat.player.attack = start.player.attack
    /\ HasStatus(combat.enemy_statuses, "Poison")

-----------------------------------------------------------------------------
(* The two level-up loops *)

\* C36: when _grant_rewards has finished with an XP amount, the level, xp,
\* unspent_points, skill_points, current_hp and current_sp it leaves are those
\* the XP part of PlayerQuests.claim_rewards computes from the same starting
\* values and the same XP amount.
C36_LevelUpLoopsAgree ==
    last_op.op = "done"
    => LET old == [stats |-> start.stats,
                   ow |-> [overworld EXCEPT !.skill_points = start.skill_points]]
           quest == ClaimXp(old, last_op.xp_reward)
       IN  /\ quest.stats.level = stats.level
           /\ quest.stats.xp = stats.xp
           /\ quest.stats.unspent_points = stats.unspent_points
           /\ quest.ow.skill_points = overworld.skill_points
           /\ quest.stats.current_hp = stats.current_hp
           /\ quest.stats.current_sp = stats.current_sp

\* C36 witness: 30 XP at BASE_XP 1 took both loops from level 4 to level 8,
\* through the 5th level and its extra skill point.
C36_Witness ==
    /\ last_op.op = "done" /\ last_op.xp_reward = 30
    /\ start.stats.level = 4 /\ stats.level > 5
    /\ overworld.skill_points = start.skill_points + SkillPoints(4, stats.level)
    /\ stats.current_hp = stats.max_hp
    /\ ClaimXp([stats |-> start.stats,
                ow |-> [overworld EXCEPT !.skill_points = start.skill_points]], 30).stats.level
          = stats.level

-----------------------------------------------------------------------------
(* quests.py: the quest registry and PlayerQuests *)

NoRewards == [scrap |-> 0, xp |-> 0, items |-> <<>>, equipment |-> <<>>, skills |-> <<>>]

\* _QUEST_LIST (the entries the model follows: a fetch quest, the quest that
\* requires it and rewards a skill, and a quest with two objectives)
QUEST_REGISTRY ==
    [spare_parts |->
        [objectives |-> <<[obj_type |-> "fetch", target |-> "Scrap Metal", required |-> 5]>>,
         rewards |-> [NoRewards EXCEPT !.scrap = 75, !.xp = 30],
         prerequisite |-> "None"],
     deep_recon |->
        [objectives |-> <<[obj_type |-> "visit", target |-> "scrap_cave", required |-> 1],
                          [obj_type |-> "kill", target |-> "Volt Wraith", required |-> 2]>>,
         rewards |-> [NoRewards EXCEPT !.scrap = 150, !.xp = 80,
                                       !.equipment = <<"Silver Pulse Blade">>],
         prerequisite |-> "None"],
     circuit_restore |->
        [objectives |-> <<[obj_type |-> "fetch", target |-> "Voltage Spike", required |-> 3]>>,
         rewards |-> [NoRewards EXCEPT !.scrap = 100, !.xp = 60, !.skills = <<"scrap_leech">>],
         prerequisite |-> "spare_parts"]]

QuestIds == DOMAIN QUEST_REGISTRY

\* PlayerQuests.__init__; a quest_id missing from a dict is "none" in states and
\* the empty list in objectives
NewPlayerQuests ==
    [states |-> [q \in QuestIds |-> "none"], objectives |-> [q \in QuestIds |-> <<>>]]

\* PlayerQuests._check_available
check_available(pq, quest_id) ==
    /\ quest_id \in QuestIds
    /\ LET prerequisite == QUEST_REGISTRY[quest_id].prerequisite
       IN  ~(prerequisite # "None" /\ pq.states[prerequisite] # "done")

\* PlayerQuests.get_state
get_state(pq, quest_id) ==
    IF quest_id \in QuestIds /\ pq.states[quest_id] # "none" THEN pq.states[quest_id]
    ELSE IF check_available(pq, quest_id) THEN "available"
    ELSE "None"

\* an accept that does not look at the quest's state
accept_NoCheck(pq, quest_id) ==
    LET templates == QUEST_REGISTRY[quest_id].objectives
    IN  [pq EXCEPT !.states[quest_id] = "active",
                   !.objectives[quest_id] =
                       [i \in DOMAIN templates |->
                           [obj_type |-> templates[i].obj_type, target |-> templates[i].target,
                            required |-> templates[i].required, current |-> 0]]]

\* PlayerQuests.accept
accept(pq, quest_id) ==
    IF get_state(pq, quest_id) # "available" THEN pq
    ELSE LET templates == QUEST_REGISTRY[quest_id].objectives
         IN  [pq EXCEPT !.states[quest_id] = "active",
                        !.objectives[quest_id] =
                            [i \in DOMAIN templates |->
                                [obj_type |-> templates[i].obj_type, target |-> templates[i].target,
                                 required |-> templates[i].required, current |-> 0]]]

\* PlayerQuests._check_complete
check_complete(pq, quest_id) ==
    IF pq.states[quest_id] # "active" THEN pq
    ELSE LET objs == pq.objectives[quest_id]
         IN  IF \A i \in DOMAIN objs : objs[i].current >= objs[i].required
             THEN [pq EXCEPT !.states[quest_id] = "complete"]
             ELSE pq

\* the loop shared by update_kill, update_visit and update_fetch: every active
\* quest gets its objectives updated by Progress and is then checked for
\* completion; a quest's pass touches only that quest, so the passes are taken
\* quest by quest
UpdateActive(pq, Progress(_)) ==
    LET Pass(qid) ==
            IF pq.states[qid] # "active" THEN pq
            ELSE LET objs == pq.objectives[qid]
                 IN  check_complete(
                        [pq EXCEPT !.objectives[qid] = [i \in DOMAIN objs |-> Progress(objs[i])]],
                        qid)
    IN  [states |-> [qid \in QuestIds |-> Pass(qid).states[qid]],
         objectives |-> [qid \in QuestIds |-> Pass(qid).objectives[qid]]]

\* PlayerQuests.update_kill
update_kill(pq, enemy_name) ==
    LET Progress(obj) == IF obj.obj_type = "kill" /\ obj.target = enemy_name
                         THEN [obj EXCEPT !.current = Min(obj.current + 1, obj.required)]
                         ELSE obj
    IN  UpdateActive(pq, Progress)

\* PlayerQuests.update_visit
update_visit(pq, map_id) ==
    LET Progress(obj) == IF obj.obj_type = "visit" /\ obj.target = map_id
                         THEN [obj EXCEPT !.current = obj.required]
                         ELSE obj
    IN  UpdateActive(pq, Progress)

\* Inventory.get_count
get_count(inv, item_name) == IF item_name \in DOMAIN inv THEN inv[item_name] ELSE 0

\* PlayerQuests.update_fetch
update_fetch(pq, inv) ==
    LET Progress(obj) == IF obj.obj_type = "fetch"
                         THEN [obj EXCEPT !.current = Min(get_count(inv, obj.target), obj.required)]
                         ELSE obj
    IN  UpdateActive(pq, Progress)

\* Inventory.add, name by name: the items and the equipment of a reward
RECURSIVE AddAll(_, _)
AddAll(inv, names) ==
    IF names = <<>> THEN inv
    ELSE AddAll([inv EXCEPT ![Head(names)] = @ + 1], Tail(names))

\* a claim that hands out the rewards and leaves the quest complete
claim_rewards_StaysComplete(g, quest_id) ==
    IF g.ow.player_quests.states[quest_id] # "complete" THEN g
    ELSE LET rewards == QUEST_REGISTRY[quest_id].rewards
             g1 == ClaimXp([g EXCEPT !.stats.money = @ + rewards.scrap], rewards.xp)
         IN  [g1 EXCEPT !.inv = AddAll(@, rewards.items \o rewards.equipment),
                        !.unlocked = @ \cup {rewards.skills[i] : i \in DOMAIN rewards.skills}]

\* PlayerQuests.claim_rewards(quest_id, overworld); g is the overworld: its stats,
\* its fields (player_quests and skill_points among them), its inventory and the
\* unlocked set of its player_skills
claim_rewards(g, quest_id) ==
    IF g.ow.player_quests.states[quest_id] # "complete" THEN g
    ELSE LET rewards == QUEST_REGISTRY[quest_id].rewards
             g1 == ClaimXp([g EXCEPT !.stats.money = @ + rewards.scrap], rewards.xp)
         IN  [g1 EXCEPT !.inv = AddAll(@, rewards.items \o rewards.equipment),
                        !.unlocked = @ \cup {rewards.skills[i] : i \in DOMAIN rewards.skills},
                        !.ow.player_quests.states[quest_id] = "done"]

-----------------------------------------------------------------------------
(* The quests of a new game under any sequence of accept, update_kill,     *)
(* update_visit, update_fetch and claim_rewards, with up to MaxCarried of  *)
(* each quest item in the inventory.                                       *)

QuestItems == {"Scrap Metal", "Voltage Spike", "Silver Pulse Blade"}

QuestInit ==
    /\ stats = PlayerStats(30, 10)
    /\ inventory = [n \in QuestItems |-> 0]
    /\ player_skills = {}
    /\ overworld = [base_xp |-> BASE_XP, current_scripted_enemy |-> "None", defeated |-> FALSE,
                    skill_points |-> 0, player_quests |-> NewPlayerQuests]
    /\ combat = NewCombat(ENEMY_TYPES.ScrapRat, stats, NoEquipment)
    /\ state_stack = <<"overworld">>
    /\ fade = NoFade
    /\ enemy_turns = -1
    /\ finished = 0
    /\ rounds = 0
    /\ last_op = Op("none", "")
    /\ start = [stats |-> stats, player |-> combat.player]

QuestFrame ==
    UNCHANGED <<combat, state_stack, fade, enemy_turns, finished, rounds, last_op, start>>

Quests == overworld.player_quests

\* the NPC's offer is closed: accept(quest_id)
QuestAccept ==
    /\ \E quest_id \in QuestIds :
          overworld' = [overworld EXCEPT !.player_quests = accept(@, quest_id)]
    /\ UNCHANGED <<stats, inventory, player_skills>>
    /\ QuestFrame

\* on_combat_victory: update_kill(enemy_data.name)
QuestKill ==
    /\ \E enemy_name \in {"Volt Wraith", "Scrap Rat"} :
          overworld' = [overworld EXCEPT !.player_quests = update_kill(@, enemy_name)]
    /\ UNCHANGED <<stats, inventory, player_skills>>
    /\ QuestFrame

\* a door transition: update_visit(map_id)
QuestVisit ==
    /\ \E map_id \in {"scrap_cave", "tinker_shop"} :
          overworld' = [overworld EXCEPT !.player_quests = update_visit(@, map_id)]
    /\ UNCHANGED <<stats, inventory, player_skills>>
    /\ QuestFrame

\* Inventory.add and Inventory.remove: a quest item is picked up, or used or sold
QuestItem ==
    /\ \E item_name \in {"Scrap Metal", "Voltage Spike"}, count \in {-1, 1} :
          /\ inventory[item_name] + count \in 0..MaxCarried
          /\ inventory' = [inventory EXCEPT ![item_name] = @ + count]
    /\ UNCHANGED <<stats, overworld, player_skills>>
    /\ QuestFrame

\* talking to the giver of an active quest: update_fetch(inventory)
QuestFetch ==
    /\ overworld' = [overworld EXCEPT !.player_quests = update_fetch(@, inventory)]
    /\ UNCHANGED <<stats, inventory, player_skills>>
    /\ QuestFrame

\* claim_rewards(quest_id, overworld)
QuestClaim ==
    /\ \E quest_id \in QuestIds :
          LET g == claim_rewards([stats |-> stats, ow |-> overworld, inv |-> inventory,
                                  unlocked |-> player_skills], quest_id)
          IN  /\ stats' = g.stats
              /\ overworld' = g.ow
              /\ inventory' = g.inv
              /\ player_skills' = g.unlocked
    /\ QuestFrame

QuestNext ==
    \/ QuestAccept
    \/ QuestKill
    \/ QuestVisit
    \/ QuestItem
    \/ QuestFetch
    \/ QuestClaim

QuestSpec == QuestInit /\ [][QuestNext]_vars

\* the place of a state in the order of a quest's life
QuestRank(state) ==
    CASE state = "None" -> 0
      [] state = "available" -> 1
      [] state = "active" -> 2
      [] state = "complete" -> 3
      [] state = "done" -> 4

\* C37: in every step each quest's state (as get_state reports it) stays where
\* it is or moves to the next of available, active, complete, done; the stats,
\* the unlocked skills and the skill points change, and the inventory gains a
\* reward, only in a step that takes exactly one quest from complete to done and
\* adds that quest's scrap; a quest that is done stays done.
C37_QuestOrder ==
    [][/\ \A q \in QuestIds :
             LET before == QuestRank(get_state(Quests, q))
                 after == QuestRank(get_state(Quests', q))
             IN  /\ after = before \/ after = before + 1
                 /\ before = 4 => after = 4
                 /\ (before = 1 /\ after = 2) => Quests'.objectives[q] # <<>>
       /\ (\/ stats' # stats \/ player_skills' # player_skills
           \/ overworld'.skill_points # overworld.skill_points
           \/ inventory'["Silver Pulse Blade"] # inventory["Silver Pulse Blade"])
          => \E q \in QuestIds :
                /\ Quests.states[q] = "complete" /\ Quests'.states[q] = "done"
                /\ \A other \in QuestIds \ {q} : Quests'.states[other] = Quests.states[other]
                /\ stats'.money = stats.money + QUEST_REGISTRY[q].rewards.scrap
       /\ \A q \in QuestIds :
             (Quests.states[q] = "complete" /\ Quests'.states[q] = "done")
             => stats'.money = stats.money + QUEST_REGISTRY[q].rewards.scrap]_vars

\* C37 witness: all three quests are done and each reward was paid once: 325
\* scrap, 170 XP (level 2 with 70 XP), one Silver Pulse Blade.
C37_Witness ==
    /\ \A q \in QuestIds : Quests.states[q] = "done"
    /\ stats.money = start.stats.money + 325
    /\ stats.level = 2 /\ stats.xp = 70
    /\ inventory["Silver Pulse Blade"] = 1

-----------------------------------------------------------------------------
(* skills.py: the skill tree and PlayerSkills *)

\* _SKILL_LIST: the prerequisites and the unlock_cost of each SkillDef
SKILL_TREE ==
    [shrapnel_blast |-> [prerequisites |-> {}, unlock_cost |-> 1],
     jury_rig_shield |-> [prerequisites |-> {}, unlock_cost |-> 1],
     voltage_surge |-> [prerequisites |-> {"shrapnel_blast"}, unlock_cost |-> 1],
     scrap_leech |-> [prerequisites |-> {"shrapnel_blast"}, unlock_cost |-> 1],
     overclock |-> [prerequisites |-> {"jury_rig_shield"}, unlock_cost |-> 1],
     magnet_storm |-> [prerequisites |-> {"voltage_surge"}, unlock_cost |-> 2],
     patchwork_heal |-> [prerequisites |-> {"scrap_leech"}, unlock_cost |-> 2],
     emp_pulse |-> [prerequisites |-> {"overclock"}, unlock_cost |-> 2],
     system_purge |-> [prerequisites |-> {"patchwork_heal"}, unlock_cost |-> 2]]

\* PlayerSkills.can_unlock; ps is [unlocked, skill_points]
can_unlock(ps, skill_id) ==
    IF skill_id \in ps.unlocked THEN FALSE
    ELSE IF skill_id \notin DOMAIN SKILL_TREE THEN FALSE
    ELSE IF ps.skill_points < SKILL_TREE[skill_id].unlock_cost THEN FALSE
    ELSE \A prereq \in SKILL_TREE[skill_id].prerequisites : prereq \in ps.unlocked

\* PlayerSkills.unlock
unlock(ps, skill_id) ==
    IF ~can_unlock(ps, skill_id) THEN ps
    ELSE [ps EXCEPT !.skill_points = @ - SKILL_TREE[skill_id].unlock_cost,
                    !.unlocked = @ \cup {skill_id}]

-----------------------------------------------------------------------------
(* The skill tree and the quest rewards: a player of level 1..MaxLevel who  *)
(* has spent no skill point, has handed in Spare Parts and holds a complete *)
(* Circuit Restoration.                                                     *)

SkillTreeInit ==
    /\ \E level \in 1..MaxLevel :
          LET g0 == [stats |-> [PlayerStats(30, 10) EXCEPT !.level = level],
                     ow |-> [base_xp |-> BASE_XP, current_scripted_enemy |-> "None",
                             defeated |-> FALSE, skill_points |-> SkillPoints(1, level),
                             player_quests |-> NewPlayerQuests],
                     inv |-> [n \in QuestItems |-> IF n = "Scrap Metal" THEN 5
                                                   ELSE IF n = "Voltage Spike" THEN 3 ELSE 0],
                     unlocked |-> {}]
              g1 == claim_rewards(
                       [g0 EXCEPT !.ow.player_quests =
                                      update_fetch(accept(@, "spare_parts"), g0.inv)],
                       "spare_parts")
              g2 == [g1 EXCEPT !.ow.player_quests =
                                   update_fetch(accept(@, "circuit_restore"), g1.inv)]
          IN  /\ stats = g2.stats
              /\ overworld = g2.ow
              /\ inventory = g2.inv
              /\ player_skills = g2.unlocked
    /\ combat = NewCombat(ENEMY_TYPES.ScrapRat, stats, NoEquipment)
    /\ state_stack = <<"overworld">>
    /\ fade = NoFade
    /\ enemy_turns = -1
    /\ finished = 0
    /\ rounds = 0
    /\ last_op = Op("none", "")
    /\ start = [stats |-> stats, player |-> combat.player]

Skills == [unlocked |-> player_skills, skill_points |-> overworld.skill_points]

\* SkillTreeState: RETURN on a skill calls unlock(skill_id); "unknown" is an id
\* that SKILL_DEFS does not hold
SkillUnlock ==
    /\ \E skill_id \in DOMAIN SKILL_TREE \cup {"unknown"} :
          LET ps == unlock(Skills, skill_id)
          IN  /\ player_skills' = ps.unlocked
              /\ overworld' = [overworld EXCEPT !.skill_points = ps.skill_points]
              /\ last_op' = Op(IF can_unlock(Skills, skill_id) THEN "Unlock" ELSE "Refused",
                               skill_id)
    /\ UNCHANGED <<combat, stats, inventory, state_stack, fade, enemy_turns, finished, rounds,
                   start>>

SkillTreeNext ==
    \/ SkillUnlock
    \/ QuestAccept
    \/ QuestKill
    \/ QuestVisit
    \/ QuestClaim

SkillTreeSpec == SkillTreeInit /\ [][SkillTreeNext]_vars

\* C38: skill_points is never negative, every unlocked skill has all its
\* prerequisites unlocked, and an unlock that is refused leaves skill_points
\* and the unlocked set as they were.
C38_SkillTreeConsistent ==
    /\ [](/\ overworld.skill_points >= 0
          /\ \A skill_id \in player_skills :
                \A prereq \in SKILL_TREE[skill_id].prerequisites : prereq \in player_skills
          /\ \A skill_id \in DOMAIN SKILL_TREE \cup {"unknown"} :
                ~can_unlock(Skills, skill_id) => unlock(Skills, skill_id) = Skills)
    /\ [][(last_op' # last_op /\ last_op'.op = "Refused")
          => (player_skills' = player_skills /\ overworld' = overworld)]_vars

====
